---- MODULE Spec2Model ----
(***************************************************************************)
(* The CloudWatch Logs output plugin (plugins/out_cloudwatch_logs) as a    *)
(* state machine: the plugin context, its log streams, and the flush       *)
(* callback cb_cloudwatch_flush run by several host workers.  A flush is   *)
(* cut at its blocking points (a lock acquisition, a network response).    *)
(* The remote service is unconstrained: it may answer any request with     *)
(* any response of the protocol.                                           *)
(***************************************************************************)
EXTENDS Integers, Sequences, FiniteSets, TLC

(***************************************************************************)
(* Program constants                                                       *)
(***************************************************************************)
PUT_LOG_EVENTS_PAYLOAD_SIZE == 1000000
\* a limit that lets one event too many into a request
MAX_EVENTS_PER_PUT_one_more == 10000 + 1
MAX_EVENTS_PER_PUT == 10000
PUT_LOG_EVENTS_FOOTER_LEN == 4
\* initial capacity of buf->events
EVENTS_CAPACITY == 5000
\* accounted bytes of one event besides its message
EVENT_OVERHEAD == 26
\* largest newest - oldest timestamp of one request, in milliseconds
MAX_TIME_SPAN == 86400000

\* lifetime of an IMDSv2 token, in seconds
AWS_IMDS_V2_TOKEN_TTL == 21600
\* FLB_AWS_REFRESH_WINDOW: seconds ahead of an expiry at which to refresh
FLB_AWS_REFRESH_WINDOW == 300

FLB_OK == "FLB_OK"
FLB_RETRY == "FLB_RETRY"
FLB_ERROR == "FLB_ERROR"

\* a NULL sequence_token
NoToken == 0
\* no holder of a stream's lock
NoWorker == "none"

(***************************************************************************)
(* Bounds of the model                                                     *)
(***************************************************************************)
\* records (runs of identical records) in one batch handed to flush
MaxRecs == 2
\* distinct sequence tokens the service hands out
MaxToken == 2

\* successful credential responses an endpoint hands out
MaxCreds == 2
MaxFailures == 2

Workers == {"w1", "w2"}
Tags == {"api", "db"}
Tokens == 1..MaxToken

\* An input record is a run of n identical records: timestamp in ms, byte
\* length of the serialized message.
Timestamps == {1000, 1000 + MAX_TIME_SPAN, 1000 + MAX_TIME_SPAN + 1}
BaseTs == CHOOSE t \in Timestamps : \A u \in Timestamps : t <= u
HalfLen == (PUT_LOG_EVENTS_PAYLOAD_SIZE - PUT_LOG_EVENTS_FOOTER_LEN) \div 2 - EVENT_OVERHEAD
Lens == {HalfLen, HalfLen + 1, PUT_LOG_EVENTS_PAYLOAD_SIZE + 50000}
Records ==
    [ts : Timestamps, len : {10}, n : {1}]
      \cup [ts : {BaseTs}, len : Lens, n : {1}]
      \cup [ts : {BaseTs}, len : {10}, n : {MAX_EVENTS_PER_PUT - 1, MAX_EVENTS_PER_PUT}]

RECURSIVE SeqsUpTo(_, _)
SeqsUpTo(S, k) ==
    IF k = 0 THEN {<<>>}
    ELSE LET shorter == SeqsUpTo(S, k - 1)
         IN  shorter \cup {Append(s, x) : s \in {t \in shorter : Len(t) = k - 1}, x \in S}

Batches == SeqsUpTo(Records, MaxRecs)

\* the batches of the concurrent flushes: none, one or two sub-batches
SmallBatches ==
    {<<>>,
     <<[ts |-> BaseTs, len |-> 10, n |-> 1]>>,
     <<[ts |-> BaseTs + MAX_TIME_SPAN + 1, len |-> 10, n |-> 1],
       [ts |-> BaseTs, len |-> 10, n |-> 1]>>}

(***************************************************************************)
(* State                                                                   *)
(***************************************************************************)
VARIABLES
    \* struct flb_output_instance
    ins,                \* the properties set, what cb_cloudwatch_init returned,
                        \* the context it exported
    \* struct flb_cloudwatch
    create_group,       \* ctx->create_group
    log_stream_name,    \* ctx->log_stream_name, "" when log_stream_prefix is set
    group_created,      \* ctx->group_created
    stream,             \* ctx->stream, the static log stream
    streams,            \* ctx->streams, the list of dynamic log streams
    \* one cb_cloudwatch_flush invocation per worker
    pc,                 \* where the worker's flush stands
    tag,                \* routing tag of the batch
    data,               \* the batch handed to flush
    events,             \* buf->events after msg_pack_to_events and qsort
    buf,                \* struct cw_flush *buf: allocated, and how many times
                        \* cw_flush_destroy was called on it in this flush
    rest,               \* the events send_in_batches has not sent yet
    sref,               \* struct log_stream *stream
    retry,              \* the one-shot retries put_log_events has used
    status,             \* the status last handed to FLB_OUTPUT_RETURN
    \* the wire, as seen from each worker
    req,                \* the last request sent
    resp,               \* the last response received by the flush
    \* history
    covered,            \* the events of the sub-batches sent by the flush, in order
    clean,              \* every response of the flush so far was a 200
    hist,               \* per stream name: sent, a PutLogEvents to it has succeeded;
                        \* ok, the nextSequenceToken of the last 200; src, what
                        \* set the stream's token last
    group_asked,        \* a CreateLogGroup has been requested by some flush
    registry_lock,      \* the worker that holds the lock of the stream registry
    entry,              \* per worker: what its lookup in the registry found
    \* the credential providers
    now,                \* time(NULL)
    sts,                \* the private state of the STS provider
    parsed,             \* the last credentials response parsed and the result
    chain,              \* what new_standard_chain_provider gave, if it was called
    environ,            \* per environment variable: the length of its value,
                        \* Unset when getenv returns NULL
    imds,               \* struct aws_credentials_provider_imds
    http,               \* struct aws_credentials_provider_http
    fetch,              \* per worker: its get_credentials call, running or last
    \* the multipart upload of the S3 output
    s3                  \* struct multipart_upload *m_upload, the response of the
                        \* last UploadPart request and what upload_part returned

vars == <<ins, create_group, log_stream_name, group_created, stream, streams,
          pc, tag, data, events, buf, rest, sref, retry, status,
          req, resp, covered, clean, hist, group_asked, registry_lock, entry,
          now, sts, parsed, chain, environ, imds, http, fetch, s3>>

\* the lock of the stream registry and the lookups under way
registry == <<registry_lock, entry>>

\* the state of the credential providers
aws == <<now, sts, parsed, chain, environ, imds, http, fetch>>

config == <<ins, create_group, log_stream_name>>

log_stream_prefix == IF log_stream_name = "" THEN "app-" ELSE ""

\* name of the log stream a tag is routed to
StreamName(t) ==
    IF log_stream_name /= "" THEN <<log_stream_name>> ELSE <<log_stream_prefix, t>>

StreamNames == {<<"fixed">>} \cup {<<"app-", t>> : t \in Tags}

\* stream == NULL
NullRef == -1
\* &ctx->stream
StaticRef == 0

\* a struct log_stream whose memory was not zeroed
NewStream_not_zeroed(name) ==
    [name |-> name, sequence_token |-> 1, exists_remotely |-> FALSE,
     oldest_event |-> 0, newest_event |-> 0, lock |-> NoWorker]

\* a struct log_stream as calloc and flb_sds_create leave it
NewStream(name) ==
    [name |-> name, sequence_token |-> NoToken, exists_remotely |-> FALSE,
     oldest_event |-> 0, newest_event |-> 0, lock |-> NoWorker]

Str(ref) == IF ref = StaticRef THEN stream ELSE streams[ref]

SetStr(ref, s) ==
    IF ref = StaticRef
    THEN stream' = s /\ UNCHANGED streams
    ELSE streams' = [streams EXCEPT ![ref] = s] /\ UNCHANGED stream

(***************************************************************************)
(* Record decoder and sort                                                 *)
(***************************************************************************)
Min(a, b) == IF a <= b THEN a ELSE b

RECURSIVE EventCount(_)
EventCount(evs) == IF evs = <<>> THEN 0 ELSE Head(evs).n + EventCount(Tail(evs))

RECURSIVE EventBytes(_)
EventBytes(evs) ==
    IF evs = <<>> THEN 0
    ELSE Head(evs).n * (Head(evs).len + EVENT_OVERHEAD) + EventBytes(Tail(evs))

\* the accounted size of a PutLogEvents payload holding evs
PayloadSize(evs) == EventBytes(evs) + PUT_LOG_EVENTS_FOOTER_LEN

\* a decoder that keeps a record whatever its size
Oversize_kept(r) == FALSE

\* a record whose message fits in no request
Oversize(r) ==
    r.len + EVENT_OVERHEAD + PUT_LOG_EVENTS_FOOTER_LEN > PUT_LOG_EVENTS_PAYLOAD_SIZE

RECURSIVE DecodeFrom(_, _)
DecodeFrom(d, i) ==
    IF i > Len(d) THEN <<>>
    ELSE (IF Oversize(d[i]) THEN <<>>
          ELSE <<[id |-> i, ts |-> d[i].ts, len |-> d[i].len, n |-> d[i].n]>>)
         \o DecodeFrom(d, i + 1)

\* the events of a batch, in input order; id is the record's place in the batch
msg_pack_to_events(d) == DecodeFrom(d, 1)

compare_events(a, b) ==
    IF a.ts < b.ts THEN -1 ELSE IF a.ts = b.ts THEN 0 ELSE 1

\* a flush that hands the events on as decoded
qsort_skipped(evs) == {evs}

\* qsort(3) leaves the order of elements that compare equal unspecified: every
\* arrangement of evs that is ordered by cmp is a possible result
qsort(evs) ==
    {p \in {[i \in 1..Len(evs) |-> evs[f[i]]] : f \in Permutations(1..Len(evs))} :
        \A i, j \in 1..Len(evs) : i < j => compare_events(p[i], p[j]) <= 0}

(***************************************************************************)
(* Batch planner                                                           *)
(***************************************************************************)
\* a planner that leaves the closing footer out of the payload accounting
Fit_without_footer(cnt, size, oldest, e) ==
    IF cnt > 0 /\ e.ts - oldest > MAX_TIME_SPAN THEN 0
    ELSE Min(e.n,
             Min(MAX_EVENTS_PER_PUT - cnt,
                 (PUT_LOG_EVENTS_PAYLOAD_SIZE - size) \div (e.len + EVENT_OVERHEAD)))

\* a planner that closes a sub-batch at a span of exactly 24 hours
Fit_closes_at_24h(cnt, size, oldest, e) ==
    IF cnt > 0 /\ e.ts - oldest >= MAX_TIME_SPAN THEN 0
    ELSE Min(e.n,
             Min(MAX_EVENTS_PER_PUT - cnt,
                 (PUT_LOG_EVENTS_PAYLOAD_SIZE - PUT_LOG_EVENTS_FOOTER_LEN - size)
                     \div (e.len + EVENT_OVERHEAD)))

\* how many events of run e can join a sub-batch that holds cnt events of
\* size bytes, the oldest at timestamp oldest
Fit(cnt, size, oldest, e) ==
    IF cnt > 0 /\ e.ts - oldest > MAX_TIME_SPAN THEN 0
    ELSE Min(e.n,
             Min(MAX_EVENTS_PER_PUT - cnt,
                 (PUT_LOG_EVENTS_PAYLOAD_SIZE - PUT_LOG_EVENTS_FOOTER_LEN - size)
                     \div (e.len + EVENT_OVERHEAD)))

\* greedy scan: events join the sub-batch until the next one would break a limit
RECURSIVE Fill(_, _, _, _)
Fill(batch, cnt, size, evs) ==
    IF evs = <<>> THEN [events |-> batch, rest |-> evs]
    ELSE LET e == Head(evs)
             oldest == IF cnt = 0 THEN e.ts ELSE batch[1].ts
             k == Fit(cnt, size, oldest, e)
         IN  IF k = 0 THEN [events |-> batch, rest |-> evs]
             ELSE IF k < e.n
             THEN [events |-> Append(batch, [e EXCEPT !.n = k]),
                   rest |-> <<[e EXCEPT !.n = e.n - k]>> \o Tail(evs)]
             ELSE Fill(Append(batch, e), cnt + e.n,
                       size + e.n * (e.len + EVENT_OVERHEAD), Tail(evs))

NextBatch(evs) == Fill(<<>>, 0, 0, evs)

(***************************************************************************)
(* Requests and responses                                                  *)
(***************************************************************************)
\* a request as it leaves the plugin; sb numbers the sub-batches of a flush
Request(kind, name, token, evs, sb) ==
    [kind |-> kind, stream |-> name, token |-> token, events |-> evs, sb |-> sb]

NoReq == Request("none", <<>>, NoToken, <<>>, 0)

Response(code, token) == [code |-> code, token |-> token]

NoResp == Response("none", NoToken)

\* struct cw_flush *buf = NULL
NoBuf == [allocated |-> FALSE, frees |-> 0]

\* buf after flb_calloc
NewBuf == [allocated |-> TRUE, frees |-> 0]

CreateResponses == {"200", "ResourceAlreadyExistsException", "OperationAbortedException"}

RetryCodes == {"ThrottlingException", "500", "connection_failure"}

PutResponses ==
    [code : {"200", "InvalidSequenceTokenException"}, token : Tokens]
      \cup [code : {"DataAlreadyAcceptedException", "ResourceNotFoundException",
                    "InvalidParameterException"} \cup RetryCodes,
            token : {NoToken}]

(***************************************************************************)
(* Credential providers                                                    *)
(***************************************************************************)
\* the plugin state that the credential providers leave alone
cloudwatch ==
    <<config, group_created, stream, streams, pc, tag, data, events, buf, rest, sref,
      retry, status, req, resp, covered, clean, hist, group_asked, registry>>

\* the instants time(NULL) takes: three seconds in a row, and the second
\* after a token acquired at the first one is due
Times ==
    {1000, 1001, 1002, 1000 + AWS_IMDS_V2_TOKEN_TTL - FLB_AWS_REFRESH_WINDOW + 1}

Epoch == CHOOSE t \in Times : \A u \in Times : t <= u

\* a struct aws_credentials; id tells the responses of one endpoint apart,
\* session_token is FALSE when the pointer is NULL
Creds(from, id) ==
    [from |-> from, id |-> id, session_token |-> from \notin {"none", "env"}]

\* a NULL struct aws_credentials *
NoCreds == Creds("none", 0)

\* the environment variables the providers read
EnvVars ==
    {"AWS_ACCESS_KEY_ID", "AWS_SECRET_ACCESS_KEY", "AWS_SESSION_TOKEN",
     "AWS_CONTAINER_CREDENTIALS_RELATIVE_URI"}

\* getenv returns NULL
Unset == -1

\* the environments: a variable is not set, set to the empty string or set
\* to a string of one character
Environments == [EnvVars -> {Unset, 0, 1}]

\* the environment in which the variables vs are set and not empty and
\* the others are not set
Env(vs) == [v \in EnvVars |-> IF v \in vs THEN 1 ELSE Unset]

\* var && strlen(var) > 0
NotEmpty(env, var) == env[var] /= Unset /\ env[var] > 0

\* an environment provider that takes an empty secret for a secret
HasKeys_empty_secret(env) ==
    NotEmpty(env, "AWS_ACCESS_KEY_ID") /\ env["AWS_SECRET_ACCESS_KEY"] /= Unset

\* the environment provider finds both keys
HasKeys(env) ==
    NotEmpty(env, "AWS_ACCESS_KEY_ID") /\ NotEmpty(env, "AWS_SECRET_ACCESS_KEY")

\* what get_credentials_fn_environment returns in the environment env,
\* when its allocations succeed
EnvCreds(env) ==
    IF HasKeys(env)
    THEN [from |-> "env", id |-> 0,
          session_token |-> NotEmpty(env, "AWS_SESSION_TOKEN")]
    ELSE NoCreds

\* what refresh_fn_environment returns in the environment env
EnvRefresh(env) == IF HasKeys(env) THEN 0 ELSE -1

\* the sub-providers new_standard_chain_provider creates, in its order:
\* environment, profile, web identity (EKS), IMDS, ECS
SubProviders == <<"env", "profile", "eks", "imds", "ecs">>

\* the allocations and constructors that can fail while the chain is built
ChainFailures ==
    {"provider", "implementation", "env", "profile", "eks", "imds", "ecs_host",
     "ecs_path", "http"}

\* new_ecs_provider returns a provider: the path variable is set and not
\* empty and nothing fails
EcsCreated(env, fail) ==
    /\ "ecs_host" \notin fail
    /\ NotEmpty(env, "AWS_CONTAINER_CREDENTIALS_RELATIVE_URI")
    /\ "ecs_path" \notin fail
    /\ "http" \notin fail

\* the constructor of the sub-provider p returns a provider
SubCreated(p, env, fail) ==
    IF p = "ecs" THEN EcsCreated(env, fail) ELSE p \notin fail

\* the sequence seq without the elements that do not satisfy Keep
RECURSIVE SelectIn(_, _)
SelectIn(seq, keep) ==
    IF seq = <<>> THEN <<>>
    ELSE IF Head(seq) \in keep THEN <<Head(seq)>> \o SelectIn(Tail(seq), keep)
    ELSE SelectIn(Tail(seq), keep)

\* new_standard_chain_provider has not been called
NoChain == [state |-> "none", providers |-> <<>>, fail |-> {}]

\* new_standard_chain_provider when the creations in fail do not succeed.
\* The result of new_eks_provider is dereferenced: when it is NULL the
\* behaviour is undefined, ub tells whether the process crashes or goes on
\* as if the provider were omitted
StandardChain(env, fail, ub) ==
    LET made == {SubProviders[k] : k \in 1..Len(SubProviders)}
                   \ {p \in {"profile", "eks", "ecs"} : ~SubCreated(p, env, fail)}
    IN  IF {"provider", "implementation", "env"} \cap fail /= {}
        THEN [state |-> "null", providers |-> <<>>, fail |-> fail]
        ELSE IF "eks" \in fail /\ ub = "crash"
        THEN [state |-> "crashed", providers |-> <<>>, fail |-> fail]
        ELSE IF "imds" \in fail
        THEN [state |-> "null", providers |-> <<>>, fail |-> fail]
        ELSE [state |-> "built", providers |-> SelectIn(SubProviders, made),
              fail |-> fail]

\* the private state of a provider as flb_calloc leaves it
\* dangling: implementation->credentials points to freed memory
\* live: the struct aws_credentials objects that were cached by the provider
\* and are not freed
NewImds ==
    [credentials |-> NoCreds, cred_refresh |-> 0,
     imds_v2_token |-> FALSE, token_refresh |-> 0, dangling |-> FALSE, live |-> 0]

NewHttp == [credentials |-> NoCreds, cred_refresh |-> 0, dangling |-> FALSE, live |-> 0]

\* the sub-providers of the standard chain that are modelled, in chain order
Providers == <<"env", "imds", "http">>

\* a worker that has called no provider yet: pc, where the call stands; p,
\* the provider asked; chain, i: the walk of the chain, if the call is one;
\* asked, the providers asked by the call and what each returned; ret,
\* what the call returned; src, whether ret came from the cache or from a
\* refresh, or the refresh failed; at, deadline: time(NULL) and cred_refresh
\* when the cache was found fresh; signed, the credentials that sign the
\* AssumeRole request of the call; refresh, the call is refresh and not
\* get_credentials, and asked holds 0 or -1 for each provider asked; last,
\* what the request before the one in flight returned, "none" if the
\* provider has made no request yet; held, what the caller holds of ret:
\* "copy", an object of its own, "none" when ret is NULL or the caller
\* has destroyed it
NoFetch ==
    [pc |-> "idle", p |-> "none", chain |-> FALSE, i |-> 0, asked |-> <<>>,
     ret |-> NoCreds, src |-> "none", at |-> 0, deadline |-> 0, signed |-> NoCreds,
     refresh |-> FALSE, last |-> "none", held |-> "none"]

\* the answers of a credentials endpoint: a failure, or a document whose
\* Expiration is exp
CredResponses ==
    {[ok |-> FALSE, exp |-> 0]}
      \cup {[ok |-> TRUE, exp |-> t + FLB_AWS_REFRESH_WINDOW] : t \in Times}

\* a provider that refreshes at every fetch
NeedsRefresh_always(impl) == TRUE

\* !implementation->credentials || time(NULL) > implementation->cred_refresh
NeedsRefresh(impl) == impl.credentials = NoCreds \/ now > impl.cred_refresh

\* a provider that asks for a token at every refresh
NeedsToken_always(impl) == TRUE

\* !implementation->imds_v2_token || time(NULL) > implementation->token_refresh
NeedsToken(impl) == ~impl.imds_v2_token \/ now > impl.token_refresh

\* w calls get_credentials of p: directly, or as the next sub-provider of
\* the chain it walks
Calls(w, p, direct) ==
    IF direct THEN fetch[w].pc = "idle"
    ELSE fetch[w].pc = "chain" /\ Providers[fetch[w].i] = p

\* the record of the call as it starts
Called(w, p, direct) ==
    IF direct THEN [NoFetch EXCEPT !.p = p] ELSE [fetch[w] EXCEPT !.p = p]

\* a provider that hands out the object it keeps in its cache
Handout_alias(creds) == IF creds = NoCreds THEN "none" ELSE "alias"

\* what get_credentials hands to its caller: NULL, or a struct of its own
\* from flb_malloc whose fields are copies made by flb_sds_create
Handout(creds) == IF creds = NoCreds THEN "none" ELSE "copy"

\* a chain that gives up at the first sub-provider without credentials
Returned_gives_up(f, ret, src) ==
    [f EXCEPT !.ret = ret, !.src = src, !.pc = "idle", !.last = "none",
              !.held = Handout(ret),
              !.asked = Append(@, [p |-> f.p, ret |-> ret])]

\* a chain refresh that refreshes every sub-provider
RefreshReturned_walks_on(f, rc) ==
    LET g == [f EXCEPT !.asked = Append(@, [p |-> f.p, ret |-> rc]), !.last = "none",
                       !.src = IF rc = 0 \/ f.src = "refreshed"
                               THEN "refreshed" ELSE "not_refreshed"]
    IN  IF f.i < Len(Providers)
        THEN [g EXCEPT !.pc = "chain_refresh", !.i = @ + 1]
        ELSE [g EXCEPT !.pc = "idle"]

\* the record f of a refresh_fn_standard_chain once the refresh of its
\* sub-provider has returned rc: 0 ends the walk, which returns 0; -1
\* takes it to the next sub-provider, and after the last it returns -1
RefreshReturned(f, rc) ==
    LET g == [f EXCEPT !.asked = Append(@, [p |-> f.p, ret |-> rc]), !.last = "none",
                       !.src = IF rc = 0 THEN "refreshed" ELSE "not_refreshed"]
    IN  IF rc /= 0 /\ f.i < Len(Providers)
        THEN [g EXCEPT !.pc = "chain_refresh", !.i = @ + 1]
        ELSE [g EXCEPT !.pc = "idle"]

\* the record f once its provider has returned ret: a direct call is over;
\* the chain returns the first credentials it gets, else asks the next
\* sub-provider, and returns NULL after the last
Returned(f, ret, src) ==
    LET g == [f EXCEPT !.ret = ret, !.src = src, !.last = "none", !.held = Handout(ret),
                       !.asked = Append(@, [p |-> f.p, ret |-> ret])]
    IN  IF f.refresh THEN RefreshReturned(f, IF ret = NoCreds THEN -1 ELSE 0)
        ELSE IF f.chain /\ ret = NoCreds /\ f.i < Len(Providers)
        THEN [g EXCEPT !.pc = "chain", !.i = @ + 1]
        ELSE [g EXCEPT !.pc = "idle"]

\* the refresh of sub-provider p is the next call of w's walk
Refreshes(w, p) == fetch[w].pc = "chain_refresh" /\ Providers[fetch[w].i] = p

\* refresh_fn_standard_chain is called
refresh_fn_standard_chain(w) ==
    /\ fetch[w].pc = "idle"
    /\ fetch' = [fetch EXCEPT ![w] = [NoFetch EXCEPT !.pc = "chain_refresh", !.chain = TRUE,
                                                     !.refresh = TRUE, !.i = 1]]
    /\ UNCHANGED <<cloudwatch, sts, parsed, chain, now, s3, environ, imds, http>>

\* get_credentials_fn_standard_chain is called
get_credentials_fn_standard_chain(w) ==
    /\ fetch[w].pc = "idle"
    /\ fetch' = [fetch EXCEPT ![w] = [NoFetch EXCEPT !.pc = "chain", !.chain = TRUE,
                                                     !.i = 1]]
    /\ UNCHANGED <<cloudwatch, sts, parsed, chain, now, s3, environ, imds, http>>

get_credentials_fn_environment(w, direct) ==
    /\ Calls(w, "env", direct)
    /\ fetch' = [fetch EXCEPT ![w] =
                    Returned(Called(w, "env", direct),
                             EnvCreds(environ),
                             "none")]
    /\ UNCHANGED <<cloudwatch, sts, parsed, chain, now, s3, environ, imds, http>>

\* refresh_fn_environment, called directly or by the chain's refresh: src
\* tells what it returned
refresh_fn_environment(w) ==
    /\ IF Refreshes(w, "env")
       THEN fetch' = [fetch EXCEPT ![w] =
                         RefreshReturned([@ EXCEPT !.p = "env"], EnvRefresh(environ))]
       ELSE /\ fetch[w].pc = "idle"
            /\ fetch' = [fetch EXCEPT ![w] =
                            [NoFetch EXCEPT !.p = "env",
                                            !.src = IF EnvRefresh(environ) = 0
                                                    THEN "refreshed" ELSE "not_refreshed"]]
    /\ UNCHANGED <<cloudwatch, sts, parsed, chain, now, s3, environ, imds, http>>

\* refresh_fn_imds, called by the chain's refresh: get_creds_imds up to
\* its first request
refresh_fn_imds(w) ==
    /\ Refreshes(w, "imds")
    /\ fetch' = [fetch EXCEPT ![w] =
                    [@ EXCEPT !.p = "imds",
                              !.pc = IF NeedsToken(imds)
                                     THEN "get_ec2_token" ELSE "get_metadata"]]
    /\ UNCHANGED <<cloudwatch, sts, parsed, chain, now, s3, environ, imds, http>>

\* refresh_fn_http, called by the chain's refresh, up to its request
refresh_fn_http(w) ==
    /\ Refreshes(w, "http")
    /\ fetch' = [fetch EXCEPT ![w] = [@ EXCEPT !.p = "http",
                                               !.pc = "http_credentials_request"]]
    /\ UNCHANGED <<cloudwatch, sts, parsed, chain, now, s3, environ, imds, http>>

\* get_credentials_fn_imds up to its first request, or to its return when
\* the cached credentials are copied
get_credentials_fn_imds(w, direct) ==
    /\ Calls(w, "imds", direct)
    /\ LET f == Called(w, "imds", direct)
       IN  fetch' = [fetch EXCEPT ![w] =
              IF NeedsRefresh(imds)
              THEN [f EXCEPT !.pc = IF NeedsToken(imds)
                                    THEN "get_ec2_token" ELSE "get_metadata"]
              ELSE Returned([f EXCEPT !.at = now, !.deadline = imds.cred_refresh],
                            imds.credentials, "cache")]
    /\ UNCHANGED <<cloudwatch, sts, parsed, chain, now, s3, environ, imds, http>>

\* get_creds_imds: get_ec2_token returns
get_ec2_token(w, ok) ==
    /\ fetch[w].pc = "get_ec2_token"
    /\ IF ok
       THEN /\ imds' = [imds EXCEPT !.imds_v2_token = TRUE,
                                    !.token_refresh = now + AWS_IMDS_V2_TOKEN_TTL
                                                          - FLB_AWS_REFRESH_WINDOW]
            /\ fetch' = [fetch EXCEPT ![w].pc = "get_metadata", ![w].last = "ok"]
       ELSE /\ fetch' = [fetch EXCEPT ![w] = Returned(@, NoCreds, "failed")]
            /\ UNCHANGED imds
    /\ UNCHANGED <<cloudwatch, sts, parsed, chain, now, s3, environ, http>>

\* a get_creds_imds that asks for the credentials whatever the role
\* lookup returned
get_metadata_goes_on(w, ok) ==
    /\ fetch[w].pc = "get_metadata"
    /\ fetch' = [fetch EXCEPT ![w] =
                    [@ EXCEPT !.pc = "imds_credentials_request",
                              !.last = IF ok THEN "ok" ELSE "failed"]]
    /\ UNCHANGED <<cloudwatch, sts, parsed, chain, now, s3, environ, imds, http>>

\* get_creds_imds: get_metadata returns the name of the instance role
get_metadata(w, ok) ==
    /\ fetch[w].pc = "get_metadata"
    /\ fetch' = [fetch EXCEPT ![w] =
                    IF ok THEN [@ EXCEPT !.pc = "imds_credentials_request", !.last = "ok"]
                    ELSE Returned(@, NoCreds, "failed")]
    /\ UNCHANGED <<cloudwatch, sts, parsed, chain, now, s3, environ, imds, http>>

\* the provider state after a credentials request answered with r: the new
\* object is assigned over the pointer to the previous one, which is not freed
Refreshed(impl, from, r) ==
    IF r.ok
    THEN [impl EXCEPT !.credentials = Creds(from, impl.credentials.id + 1),
                      !.cred_refresh = r.exp - FLB_AWS_REFRESH_WINDOW,
                      !.live = @ + 1]
    ELSE impl

\* imds_credentials_request returns, and get_credentials_fn_imds with it
imds_credentials_request(w, r) ==
    /\ fetch[w].pc = "imds_credentials_request"
    /\ r.ok => imds.credentials.id < MaxCreds
    /\ imds' = Refreshed(imds, "imds", r)
    /\ fetch' = [fetch EXCEPT ![w] =
                    IF r.ok THEN Returned(@, imds'.credentials, "refresh")
                    ELSE Returned(@, NoCreds, "failed")]
    /\ UNCHANGED <<cloudwatch, sts, parsed, chain, now, s3, environ, http>>

\* get_credentials_fn_http up to its request, or to its return when the
\* cached credentials are copied
get_credentials_fn_http(w, direct) ==
    /\ Calls(w, "http", direct)
    /\ LET f == Called(w, "http", direct)
       IN  fetch' = [fetch EXCEPT ![w] =
              IF NeedsRefresh(http)
              THEN [f EXCEPT !.pc = "http_credentials_request"]
              ELSE Returned([f EXCEPT !.at = now, !.deadline = http.cred_refresh],
                            http.credentials, "cache")]
    /\ UNCHANGED <<cloudwatch, sts, parsed, chain, now, s3, environ, imds, http>>

\* http_credentials_request returns, and get_credentials_fn_http with it
http_credentials_request(w, r) ==
    /\ fetch[w].pc = "http_credentials_request"
    /\ r.ok => http.credentials.id < MaxCreds
    /\ http' = Refreshed(http, "http", r)
    /\ fetch' = [fetch EXCEPT ![w] =
                    IF r.ok THEN Returned(@, http'.credentials, "refresh")
                    ELSE Returned(@, NoCreds, "failed")]
    /\ UNCHANGED <<cloudwatch, sts, parsed, chain, now, s3, environ, imds>>

\* an STS provider that asks for the role whatever its base provider gave
BaseFailed_ignored(base) == FALSE

\* the base provider of the STS provider has no credentials
BaseFailed(base) == base = NoCreds

\* get_credentials of the STS provider, whose base provider is the
\* environment provider: the cached credentials, or a refresh. The refresh
\* asks the base provider for credentials and fails without them;
\* with them it sends the AssumeRole request they sign
get_credentials_fn_sts(w) ==
    /\ Calls(w, "sts", TRUE)
    /\ LET f == Called(w, "sts", TRUE)
           base == EnvCreds(environ)
       IN  fetch' = [fetch EXCEPT ![w] =
              IF ~NeedsRefresh(sts)
              THEN Returned([f EXCEPT !.at = now, !.deadline = sts.cred_refresh],
                            sts.credentials, "cache")
              ELSE IF BaseFailed(base)
              THEN Returned(f, NoCreds, "failed")
              ELSE [f EXCEPT !.pc = "sts_assume_role", !.signed = base]]
    /\ UNCHANGED <<cloudwatch, sts, parsed, chain, now, s3, environ, imds, http>>

\* the answer to AssumeRole arrives
sts_assume_role(w, r) ==
    /\ fetch[w].pc = "sts_assume_role"
    /\ r.ok => sts.credentials.id < MaxCreds
    /\ sts' = Refreshed(sts, "sts", r)
    /\ fetch' = [fetch EXCEPT ![w] =
                    IF r.ok THEN Returned(@, sts'.credentials, "refresh")
                    ELSE Returned(@, NoCreds, "failed")]
    /\ UNCHANGED <<cloudwatch, parsed, chain, now, s3, environ, imds, http>>

\* the caller destroys the credentials it was handed by its last call;
\* had it been handed the provider's own object, the cache of the provider
\* would point to freed memory
aws_credentials_destroy(w) ==
    /\ fetch[w].pc = "idle"
    /\ fetch[w].held /= "none"
    /\ fetch' = [fetch EXCEPT ![w].held = "none"]
    /\ imds' = IF fetch[w].held = "alias" /\ fetch[w].p = "imds"
               THEN [imds EXCEPT !.dangling = TRUE] ELSE imds
    /\ http' = IF fetch[w].held = "alias" /\ fetch[w].p = "http"
               THEN [http EXCEPT !.dangling = TRUE] ELSE http
    /\ UNCHANGED <<cloudwatch, sts, parsed, chain, now, s3, environ>>

\* time passes
Tick(t) ==
    /\ t > now
    /\ now' = t
    /\ UNCHANGED <<cloudwatch, sts, parsed, chain, environ, imds, http, fetch, s3>>

\* a credentials response: the text is well formed JSON or not; each of
\* the keys is missing, has the empty string as its value, or a value; the
\* expiration is missing, is not a timestamp, or is one
HttpResponses ==
    [well_formed : BOOLEAN,
     AccessKeyId : {"missing", "empty", "value"},
     SecretAccessKey : {"missing", "empty", "value"},
     Token : {"missing", "empty", "value"},
     Expiration : {"missing", "unparsable", "valid"}]

\* what parse_expiration returns. It returns 0 when strptime fails; when
\* strptime succeeds the function ends without a return statement and the
\* value the caller reads is undefined: ub is what the build makes of it
parse_expiration(timestamp, ub) ==
    IF timestamp = "unparsable" THEN "0"
    ELSE IF ub = "timegm" THEN "epoch"
    ELSE IF ub = "zero" THEN "0"
    ELSE "garbage"

\* no credentials: the parser returns NULL
NoResult == [creds |-> FALSE, expiration |-> "none"]

\* creds->access_key_id, creds->secret_access_key and creds->session_token
\* are not NULL: each key was found in the response
HasAll(r) ==
    r.AccessKeyId /= "missing" /\ r.SecretAccessKey /= "missing" /\ r.Token /= "missing"

\* process_http_credentials_response: NULL when jsmn_parse fails, when the
\* expiration parses to 0, or when one of the three keys was not found;
\* *expiration is written only when the response has an Expiration, and
\* is what the caller left there otherwise
ProcessResponse(r, ub) ==
    IF ~r.well_formed THEN NoResult
    ELSE IF r.Expiration /= "missing" /\ parse_expiration(r.Expiration, ub) = "0"
    THEN NoResult
    ELSE IF ~HasAll(r) THEN NoResult
    ELSE [creds |-> TRUE,
          expiration |-> IF r.Expiration = "missing" THEN "uninitialized"
                         ELSE parse_expiration(r.Expiration, ub)]

\* the keys of a credentials response, in the order the document has them
ResponseKeys == <<"AccessKeyId", "SecretAccessKey", "Token", "Expiration">>

\* the bytes of a document are taken string by string: a quoted string is
\* one place of the text, and so is each punctuation character
Quoted(v) == [t |-> "string", v |-> v]
Char(c) == [t |-> "char", v |-> c]

\* the members "key":"value" of the keys ks that the response r has,
\* separated by commas
RECURSIVE Members(_, _)
Members(r, ks) ==
    IF ks = <<>> THEN <<>>
    ELSE IF r[Head(ks)] = "missing" THEN Members(r, Tail(ks))
    ELSE LET more == Members(r, Tail(ks))
         IN  <<Quoted(Head(ks)), Char(":"), Quoted(r[Head(ks)])>>
                \o (IF more = <<>> THEN <<>> ELSE <<Char(",")>> \o more)

\* the text of the response r: a JSON object, cut short after its members
\* when it is not well formed
Document(r) ==
    <<Char("{")>> \o Members(r, ResponseKeys)
        \o (IF r.well_formed THEN <<Char("}")>> ELSE <<>>)

\* the tokens jsmn_parse makes of the text doc after the token of the
\* object itself: the places of its strings. The end of a string token is
\* its closing quote
StringTokens(doc) == SelectSeq([p \in 1..Len(doc) |-> p], LAMBDA p : doc[p].t = "string")

\* response[t->end + 1] = '\0' for the string token at place pos: the
\* byte after the closing quote becomes NUL
Terminate(doc, pos) ==
    IF pos + 1 <= Len(doc) THEN [doc EXCEPT ![pos + 1] = Char("NUL")] ELSE doc

\* the loop of process_http_credentials_response from token i on, size
\* tokens in all, toks[k] the place of token k: the text as the loop
\* leaves it
RECURSIVE ScanTokens(_, _, _, _, _)
ScanTokens(doc, toks, i, size, ub) ==
    IF i >= size - 1 THEN doc
    ELSE IF i = 0 THEN ScanTokens(doc, toks, 1, size, ub)
    ELSE LET ended == Terminate(doc, toks[i])
             key == doc[toks[i]].v
         IN  IF key \in {"AccessKeyId", "SecretAccessKey", "Token"}
             THEN ScanTokens(ended, toks, i + 1, size, ub)
             ELSE IF key = "Expiration"
             THEN LET value == Terminate(ended, toks[i + 1])
                  IN  IF parse_expiration(doc[toks[i + 1]].v, ub) = "0" THEN value
                      ELSE ScanTokens(value, toks, i + 2, size, ub)
             ELSE ScanTokens(ended, toks, i + 1, size, ub)

\* the text of the response r after process_http_credentials_response:
\* jsmn_parse does not write to it, the loop over the tokens does
ParsedText(r, ub) ==
    LET doc == Document(r)
        toks == StringTokens(doc)
    IN  IF ~r.well_formed THEN doc ELSE ScanTokens(doc, toks, 0, Len(toks) + 1, ub)

\* nothing has been parsed
NoParse == [done |-> FALSE, response |-> <<>>, result |-> NoResult, text |-> <<>>]

\* a credentials response is parsed
process_http_credentials_response(r, ub) ==
    /\ parsed' = [done |-> TRUE, response |-> r, result |-> ProcessResponse(r, ub),
                  text |-> ParsedText(r, ub)]
    /\ UNCHANGED <<cloudwatch, sts, chain, now, s3, environ, imds, http, fetch>>

\* the chain is built once
new_standard_chain_provider(fail, ub) ==
    /\ chain = NoChain
    /\ chain' = StandardChain(environ, fail, ub)
    /\ UNCHANGED <<cloudwatch, sts, parsed, now, s3, environ, imds, http, fetch>>

\* the process runs with the variables vs set
Setenv(vs) ==
    /\ environ /= vs
    /\ environ' = vs
    /\ UNCHANGED <<cloudwatch, sts, parsed, chain, now, s3, imds, http, fetch>>

(***************************************************************************)
(* cb_cloudwatch_init                                                      *)
(***************************************************************************)
\* the properties of an output instance: each is set or not
Properties ==
    {"log_group_name", "log_stream_name", "log_stream_prefix", "region",
     "auto_create_group", "role_arn", "endpoint"}

\* what cb_cloudwatch_init creates, in the order it does
Creations ==
    <<"ctx", "stream.name", "cred_tls", "client_tls", "aws_provider",
      "session_name", "sts_tls", "sts_provider", "endpoint", "cw_client", "upstream">>

\* the creations cb_cloudwatch_init attempts with the properties props
Attempted(props) ==
    {Creations[k] : k \in 1..Len(Creations)}
      \ ((IF "log_stream_name" \in props THEN {} ELSE {"stream.name"})
          \cup (IF "role_arn" \in props THEN {}
                ELSE {"session_name", "sts_tls", "sts_provider"})
          \cup (IF "endpoint" \in props THEN {"endpoint"} ELSE {}))

\* an instance on which cb_cloudwatch_init has not run
Configured(props) ==
    [props |-> props, done |-> FALSE, ret |-> 0, error |-> "none",
     context |-> FALSE, built |-> {}, destroyed |-> <<>>, flags |-> {}]

\* an init that forgets to check for region
InitError_region_optional(props, fail) ==
    IF fail = "ctx" THEN "ctx"
    ELSE IF "log_group_name" \notin props THEN "log_group_name"
    ELSE IF {"log_stream_name", "log_stream_prefix"} \cap props = {} THEN "no_stream"
    ELSE IF {"log_stream_name", "log_stream_prefix"} \subseteq props THEN "two_streams"
    ELSE IF fail \in Attempted(props) THEN fail
    ELSE "none"

\* an init that accepts log_stream_name together with log_stream_prefix
InitError_two_streams(props, fail) ==
    IF fail = "ctx" THEN "ctx"
    ELSE IF "log_group_name" \notin props THEN "log_group_name"
    ELSE IF {"log_stream_name", "log_stream_prefix"} \cap props = {} THEN "no_stream"
    ELSE IF "region" \notin props THEN "region"
    ELSE IF fail \in Attempted(props) THEN fail
    ELSE "none"

\* what makes cb_cloudwatch_init go to its error exit, "none" if nothing:
\* fail is the creation that does not succeed
InitError(props, fail) ==
    IF fail = "ctx" THEN "ctx"
    ELSE IF "log_group_name" \notin props THEN "log_group_name"
    ELSE IF {"log_stream_name", "log_stream_prefix"} \cap props = {} THEN "no_stream"
    ELSE IF {"log_stream_name", "log_stream_prefix"} \subseteq props THEN "two_streams"
    ELSE IF "region" \notin props THEN "region"
    ELSE IF fail \in Attempted(props) THEN fail
    ELSE "none"

\* what cb_cloudwatch_init has created with props when it leaves with err
BuiltBefore(props, err) ==
    IF err = "none" THEN Attempted(props)
    ELSE IF \E k \in 1..Len(Creations) : Creations[k] = err
    THEN {Creations[j] : j \in 1..((CHOOSE k \in 1..Len(Creations) : Creations[k] = err) - 1)}
            \cap Attempted(props)
    ELSE {"ctx"}

\* what flb_cloudwatch_ctx_destroy destroys of a context that holds the
\* creations of built, in the order of its statements. ctx->base_aws_provider
\* is the chain once the TLS context of STS exists, and ctx->aws_provider
\* is then the STS provider or NULL; the static stream or the list of
\* streams comes last
CtxDestroy(props, built) ==
    LET base == "sts_tls" \in built
        order == <<"aws_provider", "sts_provider", "cred_tls", "sts_tls", "client_tls",
                   "cw_client", "endpoint", "stream.name">>
        chain_last == <<"sts_provider", "aws_provider", "cred_tls", "sts_tls", "client_tls",
                        "cw_client", "endpoint", "stream.name">>
    IN  SelectIn(IF base THEN order ELSE chain_last, built)
            \o (IF "log_stream_name" \in props THEN <<>> ELSE <<"streams">>)

\* the instance after cb_cloudwatch_init: flb_output_set_context and
\* return 0, or the context destroyed and return -1
Initialized(i, err) ==
    IF err = "none"
    THEN [i EXCEPT !.done = TRUE, !.ret = 0, !.context = TRUE,
                   !.built = Attempted(i.props)]
    ELSE [i EXCEPT !.done = TRUE, !.ret = -1, !.error = err,
                   !.destroyed = IF err = "ctx" THEN <<>>
                                 ELSE CtxDestroy(i.props, BuiltBefore(i.props, err))]

\* the flags flb_upstream_create may leave on the upstream it returns
UpstreamFlags == {{"FLB_IO_TLS"}, {"FLB_IO_TLS", "FLB_IO_ASYNC"}}

\* an init that leaves the flags of the upstream as they are
ClearAsync_kept(flags) == flags

\* upstream->flags &= ~(FLB_IO_ASYNC)
ClearAsync(flags) == flags \ {"FLB_IO_ASYNC"}

\* the instance i with the upstream of its client, which was created
\* with flags, when cb_cloudwatch_init got that far
WithUpstream(i, flags) ==
    IF i.context THEN [i EXCEPT !.flags = ClearAsync(flags)] ELSE i

\* the host stops the plugin: cb_cloudwatch_exit destroys the context
cb_cloudwatch_exit ==
    /\ ins.context
    /\ \A w \in Workers : pc[w] = "idle"
    /\ ins' = [ins EXCEPT !.context = FALSE,
                          !.destroyed = CtxDestroy(ins.props, ins.built)]
    /\ UNCHANGED <<create_group, log_stream_name, stream>>
    /\ UNCHANGED <<aws, s3, registry, group_asked, group_created, streams, pc, tag, data,
                   events, buf, rest, sref,
                   retry, status, req, resp, covered, clean, hist>>

\* the host runs cb_cloudwatch_init on the instance
cb_cloudwatch_init(fail) ==
    /\ ~ins.done
    /\ LET err == InitError(ins.props, fail)
       IN  /\ \E flags \in UpstreamFlags : ins' = WithUpstream(Initialized(ins, err), flags)
           /\ IF err = "none"
              THEN /\ create_group' = ("auto_create_group" \in ins.props)
                   /\ log_stream_name' =
                          IF "log_stream_name" \in ins.props THEN "fixed" ELSE ""
                   /\ stream' = NewStream(IF "log_stream_name" \in ins.props
                                          THEN <<"fixed">> ELSE <<>>)
              ELSE UNCHANGED <<create_group, log_stream_name, stream>>
    /\ UNCHANGED <<aws, s3, registry, group_asked, group_created, streams, pc, tag, data,
                   events, buf, rest, sref,
                   retry, status, req, resp, covered, clean, hist>>

(***************************************************************************)
(* S3 multipart upload                                                     *)
(***************************************************************************)
\* the longest response of the S3 requests, in symbols
MaxData == 4

\* the part numbers of the uploads
Parts == 1..2

\* the text of a response: the header key "ETag:" is one symbol
ETagKey == "ETag:"
DataSymbols == {ETagKey, " ", "\"", "a"}

\* isspace(c)
IsSpace(c) == c = " "

\* a flb_sds_t: NULL, or a string
NullSds == [null |-> TRUE, s |-> <<>>]
Sds(str) == [null |-> FALSE, s |-> str]

\* strstr(response, "ETag:"): the index of the first key, 0 when there is none
StrStr(response) ==
    IF \E k \in 1..Len(response) : response[k] = ETagKey
    THEN CHOOSE k \in 1..Len(response) :
             /\ response[k] = ETagKey
             /\ \A j \in 1..(k - 1) : response[j] /= ETagKey
    ELSE 0

\* while (i < size && (response[i] == '\"' || isspace(response[i]) != 0)) i++;
\* by 1-based position: i is the next position to look at
RECURSIVE SkipOpening(_, _)
SkipOpening(response, i) ==
    IF i <= Len(response) /\ (response[i] = "\"" \/ IsSpace(response[i]))
    THEN SkipOpening(response, i + 1)
    ELSE i

\* while (i < size && (response[i] != '\"' && isspace(response[i]) == 0)) i++;
RECURSIVE SkipValue(_, _)
SkipValue(response, i) ==
    IF i <= Len(response) /\ response[i] /= "\"" /\ ~IsSpace(response[i])
    THEN SkipValue(response, i + 1)
    ELSE i

\* get_etag: the value after the first "ETag:", NULL when there is no key or
\* flb_sds_create_len fails
get_etag(response, mem) ==
    LET tmp == StrStr(response)
        start == SkipOpening(response, tmp + 1)
        end == SkipValue(response, start)
    IN  IF tmp = 0 \/ mem = "no_etag" THEN NullSds
        ELSE Sds(SubSeq(response, start, end - 1))

\* the responses of the S3 client: NULL, or a status and the raw data
NoClient == [null |-> TRUE, status |-> 0, data |-> <<>>]
S3Responses ==
    {NoClient} \cup
    { [null |-> FALSE, status |-> st, data |-> d] :
        st \in {200, 403},
        d \in UNION { [1..n -> DataSymbols] : n \in 0..MaxData } }

\* what the allocations of upload_part and get_etag do
S3MemOutcomes == {"ok", "no_uri", "no_etag"}

\* an upload_part that stores the ETag of a response of any status
UploadPart_any_status(u, c, mem) ==
    IF mem = "no_uri" \/ c.null THEN [ret |-> -1, m_upload |-> u]
    ELSE LET tmp == get_etag(c.data, mem)
         IN  IF tmp.null THEN [ret |-> -1, m_upload |-> u]
             ELSE [ret |-> 0,
                   m_upload |-> [u EXCEPT !.etags[u.part_number] = tmp]]

\* upload_part: what it returns and what it leaves in m_upload
UploadPart(u, c, mem) ==
    IF mem = "no_uri" \/ c.null THEN [ret |-> -1, m_upload |-> u]
    ELSE IF c.status = 200
         THEN LET tmp == get_etag(c.data, mem)
              IN  IF tmp.null THEN [ret |-> -1, m_upload |-> u]
                  ELSE [ret |-> 0,
                        m_upload |-> [u EXCEPT !.etags[u.part_number] = tmp]]
         ELSE [ret |-> -1, m_upload |-> u]

\* the uploads a part is sent for: the upload is created, part_number counts
\* from 1, the parts before it have their ETag, and the part itself may have
\* one from an earlier call
Uploads ==
    { [upload_id |-> "id", part_number |-> n,
       etags |-> [k \in Parts |-> IF k < n \/ (k = n /\ again)
                                  THEN Sds(<<"a">>) ELSE NullSds]] :
        n \in Parts, again \in BOOLEAN }

\* the first part of a new upload
FirstUpload ==
    [upload_id |-> "id", part_number |-> 1, etags |-> [k \in Parts |-> NullSds]]

\* no part has been sent
NoUpload(u) ==
    [m_upload |-> u, called |-> FALSE, c |-> NoClient, mem |-> "ok", ret |-> 0]

\* upload_part is called for the part m_upload->part_number; one call is
\* followed from each upload
upload_part(c, mem) ==
    /\ ~s3.called
    /\ s3' = [m_upload |-> UploadPart(s3.m_upload, c, mem).m_upload,
              called |-> TRUE, c |-> c, mem |-> mem,
              ret |-> UploadPart(s3.m_upload, c, mem).ret]
    /\ UNCHANGED <<cloudwatch, aws>>

\* the properties that give the context its create_group and log_stream_name
PropertiesOf(group, name) ==
    {"log_group_name", "region"}
      \cup (IF group THEN {"auto_create_group"} ELSE {})
      \cup (IF name /= "" THEN {"log_stream_name"} ELSE {"log_stream_prefix"})

\* the context cb_cloudwatch_init exports: exactly one of log_stream_name
\* and log_stream_prefix is set
Started(u) ==
    /\ create_group \in BOOLEAN
    /\ log_stream_name \in {"", "fixed"}
    /\ ins = WithUpstream(
                 Initialized(Configured(PropertiesOf(create_group, log_stream_name)), "none"),
                 {"FLB_IO_TLS", "FLB_IO_ASYNC"})
    /\ group_created = FALSE
    /\ stream = NewStream(IF log_stream_name /= "" THEN <<log_stream_name>> ELSE <<>>)
    /\ streams = <<>>
    /\ pc = [w \in Workers |-> "idle"]
    /\ tag = [w \in Workers |-> ""]
    /\ data = [w \in Workers |-> <<>>]
    /\ events = [w \in Workers |-> <<>>]
    /\ buf = [w \in Workers |-> NoBuf]
    /\ rest = [w \in Workers |-> <<>>]
    /\ sref = [w \in Workers |-> NullRef]
    /\ retry = [w \in Workers |-> {}]
    /\ status = [w \in Workers |-> "none"]
    /\ req = [w \in Workers |-> NoReq]
    /\ resp = [w \in Workers |-> NoResp]
    /\ covered = [w \in Workers |-> <<>>]
    /\ clean = [w \in Workers |-> TRUE]
    /\ hist = [n \in StreamNames |-> [sent |-> FALSE, ok |-> NoToken, src |-> "none"]]
    /\ group_asked = FALSE
    /\ registry_lock = NoWorker
    /\ entry = [w \in Workers |-> NullRef]
    /\ now = Epoch
    /\ chain = NoChain
    /\ parsed = NoParse
    /\ environ = Env({})
    /\ imds = NewImds
    /\ http = NewHttp
    /\ sts = NewHttp
    /\ fetch = [w \in Workers |-> NoFetch]
    /\ s3 = NoUpload(u)

Init == Started(FirstUpload)

(***************************************************************************)
(* cb_cloudwatch_flush                                                     *)
(***************************************************************************)
\* w sends the request r and waits for the response
Send(w, r) == req' = [req EXCEPT ![w] = r]

\* w has received the response r
Receive(w, r) ==
    /\ resp' = [resp EXCEPT ![w] = r]
    /\ clean' = [clean EXCEPT ![w] = @ /\ r.code = "200"]

\* a flush that releases its buffer only when it returns FLB_OK
Released_on_success(b, st) ==
    IF b.allocated /\ st = FLB_OK THEN [allocated |-> FALSE, frees |-> b.frees + 1] ELSE b

\* the buffer b of a flush that reports st: every exit after flb_calloc
\* calls cw_flush_destroy(buf) first, the earlier ones have no buffer
Released(b, st) ==
    IF b.allocated THEN [allocated |-> FALSE, frees |-> b.frees + 1] ELSE b

\* cw_flush_destroy(b); FLB_OUTPUT_RETURN(st): the flush is over; its
\* arguments and locals are gone, the host has the status
ReturnFrom(w, st, b) ==
    /\ buf' = [buf EXCEPT ![w] = Released(b, st)]
    /\ pc' = [pc EXCEPT ![w] = "idle"]
    /\ status' = [status EXCEPT ![w] = st]
    /\ tag' = [tag EXCEPT ![w] = ""]
    /\ data' = [data EXCEPT ![w] = <<>>]
    /\ events' = [events EXCEPT ![w] = <<>>]
    /\ rest' = [rest EXCEPT ![w] = <<>>]
    /\ sref' = [sref EXCEPT ![w] = NullRef]
    /\ retry' = [retry EXCEPT ![w] = {}]
    /\ covered' = [covered EXCEPT ![w] = <<>>]
    /\ req' = [req EXCEPT ![w] = NoReq]

\* FLB_OUTPUT_RETURN(st) with the buffer the flush has
Return(w, st) == ReturnFrom(w, st, buf[w])

\* a flush that reports a failed send_in_batches as fatal
FlushStatus_fatal(ret) == IF ret < 0 THEN FLB_ERROR ELSE FLB_OK

\* the status cb_cloudwatch_flush reports for the result of send_in_batches
FlushStatus(ret) == IF ret < 0 THEN FLB_RETRY ELSE FLB_OK

\* a flush that never asks for the log group
NeedsGroup_never(wanted, created) == FALSE

\* a flush that asks for the log group whether or not it was created
NeedsGroup_every_flush(wanted, created) == wanted

\* cb_cloudwatch_flush calls create_log_group: the group is wanted and not
\* created yet
NeedsGroup(wanted, created) == wanted /\ ~created

\* the host calls cb_cloudwatch_flush with a batch d tagged t; the log group
\* is created first when that is wanted and not done yet
Flush(w, t, d) ==
    /\ ins.context
    /\ pc[w] = "idle"
    /\ tag' = [tag EXCEPT ![w] = t]
    /\ data' = [data EXCEPT ![w] = d]
    /\ status' = [status EXCEPT ![w] = "none"]
    /\ buf' = [buf EXCEPT ![w] = NoBuf]
    /\ clean' = [clean EXCEPT ![w] = TRUE]
    /\ IF NeedsGroup(create_group, group_created)
       THEN /\ Send(w, Request("CreateLogGroup", <<>>, NoToken, <<>>, 0))
            /\ pc' = [pc EXCEPT ![w] = "create_log_group"]
            /\ group_asked' = TRUE
       ELSE /\ req' = [req EXCEPT ![w] = NoReq]
            /\ pc' = [pc EXCEPT ![w] = "get_log_stream"]
            /\ UNCHANGED group_asked
    /\ resp' = [resp EXCEPT ![w] = NoResp]
    /\ UNCHANGED <<config, aws, s3, registry, group_created, stream, streams, events, rest, sref,
                   retry, covered, hist>>

\* a create_log_group that takes an existing group for a failure
GroupCreated_only_200(code) == code = "200"

\* create_log_group succeeded: the group was created, or it was there
GroupCreated(code) == code \in {"200", "ResourceAlreadyExistsException"}

\* create_log_group returns
CreateLogGroupResp(w, code) ==
    /\ pc[w] = "create_log_group"
    /\ Receive(w, Response(code, NoToken))
    /\ IF GroupCreated(code)
       THEN /\ group_created' = TRUE
            /\ pc' = [pc EXCEPT ![w] = "get_log_stream"]
            /\ UNCHANGED <<status, tag, data, events, buf, rest, sref, retry, covered, req>>
       ELSE /\ Return(w, FLB_RETRY)
            /\ UNCHANGED group_created
    /\ UNCHANGED <<config, aws, s3, registry, group_asked, stream, streams, hist>>

\* a create_log_stream that takes an existing stream for a failure
StreamCreated_only_200(code) == code = "200"

\* create_log_stream succeeded: the stream was created, or it was there
StreamCreated(code) == code \in {"200", "ResourceAlreadyExistsException"}

\* a create_log_stream that leaves the stream's old token in place
Created_keeps_token(s) == [s EXCEPT !.exists_remotely = TRUE]

\* the stream entry after create_log_stream succeeded
Created(s) == [s EXCEPT !.exists_remotely = TRUE, !.sequence_token = NoToken]

\* the entry of the stream named name in the registry, NullRef if there
\* is none; the static stream when log_stream_name is set
Lookup(name) ==
    LET found == {i \in 1..Len(streams) : streams[i].name = name}
    IN  IF log_stream_name /= "" THEN StaticRef
        ELSE IF found /= {} THEN CHOOSE i \in found : \A j \in found : i <= j
        ELSE NullRef

\* get_log_stream has its entry ref (one past the end of the list: an entry
\* to be added); under the stream's lock, a stream not known to exist
\* remotely is created before anything is sent to it
Resolve(w, ref) ==
    LET s == IF ref > Len(streams) THEN NewStream(StreamName(tag[w])) ELSE Str(ref)
    IN  /\ s.lock = NoWorker
        /\ sref' = [sref EXCEPT ![w] = ref]
        /\ IF s.exists_remotely
           THEN /\ pc' = [pc EXCEPT ![w] = "decode"]
                /\ UNCHANGED <<stream, streams, req>>
           ELSE /\ IF ref = StaticRef
                   THEN stream' = [s EXCEPT !.lock = w] /\ UNCHANGED streams
                   ELSE /\ streams' = [i \in 1..(IF ref > Len(streams) THEN ref
                                                 ELSE Len(streams)) |->
                                          IF i = ref THEN [s EXCEPT !.lock = w]
                                          ELSE streams[i]]
                        /\ UNCHANGED stream
                /\ Send(w, Request("CreateLogStream", s.name, NoToken, <<>>, 0))
                /\ pc' = [pc EXCEPT ![w] = "create_log_stream"]

\* get_log_stream in one step: the static stream, or the entry of the tag,
\* added to the list when it is not there
GetLogStream(w) ==
    /\ pc[w] = "get_log_stream"
    /\ LET found == Lookup(StreamName(tag[w]))
       IN  Resolve(w, IF found = NullRef THEN Len(streams) + 1 ELSE found)
    /\ UNCHANGED <<config, aws, s3, registry, group_asked, group_created, tag, data, events, buf,
                   rest, retry, status, resp, covered, clean, hist>>

\* a registry whose lock is never taken
RegistryFree_unlocked(l) == TRUE

\* the lock of the registry can be taken
RegistryFree(l) == l = NoWorker

\* get_log_stream step by step. First the lookup, under the registry's lock
RegistryLookup(w) ==
    /\ pc[w] = "get_log_stream"
    /\ RegistryFree(registry_lock)
    /\ registry_lock' = w
    /\ entry' = [entry EXCEPT ![w] = Lookup(StreamName(tag[w]))]
    /\ pc' = [pc EXCEPT ![w] = "registry_insert"]
    /\ UNCHANGED <<config, aws, s3, group_asked, group_created, stream, streams, tag, data,
                   events, buf, rest, sref, retry, status, req, resp, covered, clean, hist>>

\* then the insertion of a new entry when the lookup found none; the lock
\* of the registry is released
RegistryInsert(w) ==
    /\ pc[w] = "registry_insert"
    /\ IF entry[w] = NullRef
       THEN /\ streams' = Append(streams, NewStream(StreamName(tag[w])))
            /\ sref' = [sref EXCEPT ![w] = Len(streams) + 1]
       ELSE /\ sref' = [sref EXCEPT ![w] = entry[w]]
            /\ UNCHANGED streams
    /\ registry_lock' = NoWorker
    /\ entry' = [entry EXCEPT ![w] = NullRef]
    /\ pc' = [pc EXCEPT ![w] = "registry_done"]
    /\ UNCHANGED <<config, aws, s3, group_asked, group_created, stream, tag, data, events, buf,
                   rest, retry, status, req, resp, covered, clean, hist>>

\* then the stream is created when it is not known to exist remotely
RegistryResolved(w) ==
    /\ pc[w] = "registry_done"
    /\ Resolve(w, sref[w])
    /\ UNCHANGED <<config, aws, s3, registry, group_asked, group_created, tag, data, events, buf,
                   rest, retry, status, resp, covered, clean, hist>>

\* create_log_stream returns inside get_log_stream; when it failed,
\* get_log_stream returns NULL
CreateLogStreamResp(w, code) ==
    /\ pc[w] = "create_log_stream"
    /\ Receive(w, Response(code, NoToken))
    /\ IF StreamCreated(code)
       THEN /\ SetStr(sref[w], [Created(Str(sref[w])) EXCEPT !.lock = NoWorker])
            /\ hist' = [hist EXCEPT ![Str(sref[w]).name].src = "none"]
            /\ pc' = [pc EXCEPT ![w] = "decode"]
            /\ UNCHANGED <<status, tag, data, events, buf, rest, sref, retry, covered, req>>
       ELSE /\ SetStr(sref[w], [Str(sref[w]) EXCEPT !.lock = NoWorker])
            /\ Return(w, FLB_RETRY)
            /\ UNCHANGED hist
    /\ UNCHANGED <<config, aws, s3, registry, group_asked, group_created>>

\* buffers are allocated, the batch is decoded into events, the events are
\* sorted; mem tells which allocation fails, if any: no_flush, that of the
\* struct cw_flush; no_buf, that of one of its three buffers; no_grow, that
\* of more room for the events
Decode(w, mem) ==
    /\ pc[w] = "decode"
    /\ LET decoded == msg_pack_to_events(data[w])
           event_count == IF mem = "no_grow" /\ EventCount(decoded) > EVENTS_CAPACITY
                          THEN -1 ELSE EventCount(decoded)
       IN  IF mem = "no_flush" THEN ReturnFrom(w, FLB_RETRY, NoBuf)
           ELSE IF mem = "no_buf" \/ event_count < 0
           THEN ReturnFrom(w, FLB_RETRY, NewBuf)
           ELSE /\ \E sorted \in qsort(decoded) :
                      /\ events' = [events EXCEPT ![w] = sorted]
                      /\ rest' = [rest EXCEPT ![w] = sorted]
                /\ buf' = [buf EXCEPT ![w] = NewBuf]
                /\ pc' = [pc EXCEPT ![w] = "send_in_batches"]
                /\ UNCHANGED <<status, tag, data, sref, retry, covered, req>>
    /\ UNCHANGED <<config, aws, s3, registry, group_asked, group_created, stream, streams,
                   resp, clean, hist>>

\* the stream entry of a put_log_events that does not take the lock
Locked_not(s, w, evs) ==
    [s EXCEPT !.oldest_event = evs[1].ts, !.newest_event = evs[Len(evs)].ts]

\* the stream entry while a sub-batch is in flight under w's lock
Locked(s, w, evs) ==
    [s EXCEPT !.lock = w, !.oldest_event = evs[1].ts, !.newest_event = evs[Len(evs)].ts]

\* the stream entry when put_log_events lets go of it
Unlocked(s) ==
    [s EXCEPT !.lock = NoWorker, !.oldest_event = 0, !.newest_event = 0]

\* the PutLogEvents request for evs: sequenceToken is the stream's, if any
PutRequest(s, evs, sb) == Request("PutLogEvents", s.name, s.sequence_token, evs, sb)

\* send_in_batches: nothing left, the flush is done; otherwise the next
\* sub-batch is cut off and put_log_events sends it under the stream's lock
SendInBatches(w) ==
    /\ pc[w] = "send_in_batches"
    /\ IF rest[w] = <<>>
       THEN /\ Return(w, FlushStatus(0))
            /\ UNCHANGED <<stream, streams>>
       ELSE LET b == NextBatch(rest[w])
                s == Str(sref[w])
            IN  /\ s.lock = NoWorker
                /\ SetStr(sref[w], Locked(s, w, b.events))
                /\ rest' = [rest EXCEPT ![w] = b.rest]
                /\ retry' = [retry EXCEPT ![w] = {}]
                /\ covered' = [covered EXCEPT ![w] = @ \o b.events]
                /\ Send(w, PutRequest(s, b.events, req[w].sb + 1))
                /\ pc' = [pc EXCEPT ![w] = "put_log_events"]
                /\ UNCHANGED <<status, tag, data, events, buf, sref>>
    /\ UNCHANGED <<config, aws, s3, registry, group_asked, group_created, resp, clean, hist>>

\* a put_log_events that takes DataAlreadyAcceptedException for a failure
PutOutcome_rejects_accepted(code, used) ==
    CASE code = "200" -> "ok"
      [] code = "InvalidSequenceTokenException" ->
            IF "token" \in used THEN "fail" ELSE "resend"
      [] code = "ResourceNotFoundException" ->
            IF "create" \in used THEN "fail" ELSE "create"
      [] OTHER -> "fail"

\* what put_log_events does with a response, given the retries already used
PutOutcome(code, used) ==
    CASE code = "200" -> "ok"
      [] code = "DataAlreadyAcceptedException" -> "ok"
      [] code = "InvalidSequenceTokenException" ->
            IF "token" \in used THEN "fail" ELSE "resend"
      [] code = "ResourceNotFoundException" ->
            IF "create" \in used THEN "fail" ELSE "create"
      [] OTHER -> "fail"

\* the stream's sequence token once the response r has been handled
TokenAfter(token, r, used) ==
    CASE r.code = "200" -> r.token
      [] r.code = "InvalidSequenceTokenException" /\ "token" \notin used -> r.token
      [] OTHER -> token

\* put_log_events gets the response to its request
PutLogEventsResp(w, r) ==
    /\ pc[w] = "put_log_events"
    /\ LET s == Str(sref[w])
           out == PutOutcome(r.code, retry[w])
           t == [s EXCEPT !.sequence_token = TokenAfter(s.sequence_token, r, retry[w])]
       IN  /\ hist' = IF r.code = "200"
                      THEN [hist EXCEPT ![s.name] =
                                [sent |-> TRUE, ok |-> r.token, src |-> "200"]]
                      ELSE IF out = "ok"
                      THEN [hist EXCEPT ![s.name].sent = TRUE]
                      ELSE IF out = "resend"
                      THEN [hist EXCEPT ![s.name].src = "expected"]
                      ELSE hist
           /\ Receive(w, r)
           /\ CASE out = "ok" ->
                  /\ SetStr(sref[w], Unlocked(t))
                  /\ pc' = [pc EXCEPT ![w] = "send_in_batches"]
                  /\ UNCHANGED <<status, tag, data, events, buf, rest, sref, retry, covered, req>>
             [] out = "resend" ->
                  /\ SetStr(sref[w], t)
                  /\ retry' = [retry EXCEPT ![w] = @ \cup {"token"}]
                  /\ Send(w, PutRequest(t, req[w].events, req[w].sb))
                  /\ UNCHANGED <<pc, status, tag, data, events, buf, rest, sref, covered>>
             [] out = "create" ->
                  /\ retry' = [retry EXCEPT ![w] = @ \cup {"create"}]
                  /\ Send(w, Request("CreateLogStream", s.name, NoToken,
                                     req[w].events, req[w].sb))
                  /\ pc' = [pc EXCEPT ![w] = "recreate_stream"]
                  /\ UNCHANGED <<stream, streams, status, tag, data, events, buf, rest, sref,
                                 covered>>
             [] out = "fail" ->
                  /\ SetStr(sref[w], Unlocked(t))
                  /\ Return(w, FlushStatus(-1))
    /\ UNCHANGED <<config, aws, s3, registry, group_asked, group_created>>

\* create_log_stream returns inside put_log_events, after the stream was
\* reported missing: the sub-batch is sent again, or the flush fails
RecreateResp(w, code) ==
    /\ pc[w] = "recreate_stream"
    /\ Receive(w, Response(code, NoToken))
    /\ LET s == Str(sref[w])
       IN  IF StreamCreated(code)
           THEN /\ SetStr(sref[w], Created(s))
                /\ hist' = [hist EXCEPT ![s.name].src = "none"]
                /\ Send(w, PutRequest(Created(s), req[w].events, req[w].sb))
                /\ pc' = [pc EXCEPT ![w] = "put_log_events"]
                /\ UNCHANGED <<status, tag, data, events, buf, rest, sref, retry, covered>>
           ELSE /\ SetStr(sref[w], Unlocked(s))
                /\ Return(w, FlushStatus(-1))
                /\ UNCHANGED hist
    /\ UNCHANGED <<config, aws, s3, registry, group_asked, group_created>>

(***************************************************************************)
(* Specifications                                                          *)
(***************************************************************************)
MemOutcomes == {"ok", "no_flush", "no_buf", "no_grow"}

\* one step of worker w: the host draws tags from T and batches from B, the
\* service answers PutLogEvents from R
Step(w, T, B, R) ==
    \/ \E t \in T, d \in B : Flush(w, t, d)
    \/ \E code \in CreateResponses : CreateLogGroupResp(w, code)
    \/ GetLogStream(w)
    \/ \E code \in CreateResponses : CreateLogStreamResp(w, code)
    \/ \E mem \in MemOutcomes : Decode(w, mem)
    \/ SendInBatches(w)
    \/ \E r \in R : PutLogEventsResp(w, r)
    \/ \E code \in CreateResponses : RecreateResp(w, code)

\* one worker flushes small batches of either tag, one flush after the other
Next == Step("w1", Tags, SmallBatches, PutResponses)

Spec == Init /\ [][Next]_vars

\* the responses of a service that uses one token value and one kind of
\* transient failure
FewResponses ==
    {r \in PutResponses :
        r.token <= 1 /\ r.code \notin {"500", "connection_failure", "InvalidParameterException"}}

\* one worker flushes batches that reach every limit of a request
NextPlanner == Step("w1", {"api"}, Batches, FewResponses)

SpecPlanner == Init /\ [][NextPlanner]_vars

\* an instance with any properties, before cb_cloudwatch_init: the context
\* is all zeroes
Unbuilt ==
    /\ ins \in {Configured(props) : props \in SUBSET Properties}
    /\ create_group = FALSE
    /\ log_stream_name = ""
    /\ group_created = FALSE
    /\ stream = NewStream(<<>>)
    /\ streams = <<>>
    /\ pc = [w \in Workers |-> "idle"]
    /\ tag = [w \in Workers |-> ""]
    /\ data = [w \in Workers |-> <<>>]
    /\ events = [w \in Workers |-> <<>>]
    /\ buf = [w \in Workers |-> NoBuf]
    /\ rest = [w \in Workers |-> <<>>]
    /\ sref = [w \in Workers |-> NullRef]
    /\ retry = [w \in Workers |-> {}]
    /\ status = [w \in Workers |-> "none"]
    /\ req = [w \in Workers |-> NoReq]
    /\ resp = [w \in Workers |-> NoResp]
    /\ covered = [w \in Workers |-> <<>>]
    /\ clean = [w \in Workers |-> TRUE]
    /\ hist = [n \in StreamNames |-> [sent |-> FALSE, ok |-> NoToken, src |-> "none"]]
    /\ group_asked = FALSE
    /\ registry_lock = NoWorker
    /\ entry = [w \in Workers |-> NullRef]
    /\ now = Epoch
    /\ chain = NoChain
    /\ parsed = NoParse
    /\ environ = Env({})
    /\ imds = NewImds
    /\ http = NewHttp
    /\ sts = NewHttp
    /\ fetch = [w \in Workers |-> NoFetch]
    /\ s3 = NoUpload(FirstUpload)

\* the host constructs the plugin, any creation may fail, and flushes
\* batches of one record once it has a context
NextInit ==
    \/ \E fail \in {"none"} \cup {Creations[k] : k \in 1..Len(Creations)} :
          cb_cloudwatch_init(fail)
    \/ Step("w1", {"api"}, {b \in SmallBatches : Len(b) = 1}, FewResponses)
    \/ cb_cloudwatch_exit

SpecInit == Unbuilt /\ [][NextInit]_vars

\* several workers flush batches of at most one record concurrently
NextWorkers ==
    \E w \in Workers : Step(w, Tags, {b \in SmallBatches : Len(b) <= 1}, FewResponses)

SpecWorkers == Init /\ [][NextWorkers]_vars

\* one step of worker w with get_log_stream taken step by step
StepRegistry(w, T, B, R) ==
    \/ \E t \in T, d \in B : Flush(w, t, d)
    \/ \E code \in CreateResponses : CreateLogGroupResp(w, code)
    \/ RegistryLookup(w)
    \/ RegistryInsert(w)
    \/ RegistryResolved(w)
    \/ \E code \in CreateResponses : CreateLogStreamResp(w, code)
    \/ \E mem \in MemOutcomes : Decode(w, mem)
    \/ SendInBatches(w)
    \/ \E r \in R : PutLogEventsResp(w, r)
    \/ \E code \in CreateResponses : RecreateResp(w, code)

\* several workers flush batches of one record concurrently, their lookups
\* and insertions in the registry interleave
NextRegistry ==
    \E w \in Workers :
        StepRegistry(w, Tags, {b \in SmallBatches : Len(b) = 1}, FewResponses)

SpecRegistry == Init /\ [][NextRegistry]_vars

(***************************************************************************)
(* Properties                                                              *)
(***************************************************************************)
\* the stream entries a flush can be routed to
Entries ==
    IF log_stream_name /= "" THEN {stream} ELSE {streams[i] : i \in 1..Len(streams)}

\* one step of the credential providers on behalf of worker w, which calls
\* the providers of P directly; the credentials endpoints answer from R
AwsStep(w, P, R) ==
    \/ get_credentials_fn_standard_chain(w)
    \/ \E direct \in {"env" \in P, FALSE} : get_credentials_fn_environment(w, direct)
    \/ \E direct \in {"imds" \in P, FALSE} : get_credentials_fn_imds(w, direct)
    \/ \E ok \in BOOLEAN : get_ec2_token(w, ok)
    \/ \E ok \in BOOLEAN : get_metadata(w, ok)
    \/ \E r \in R : imds_credentials_request(w, r)
    \/ \E direct \in {"http" \in P, FALSE} : get_credentials_fn_http(w, direct)
    \/ \E r \in R : http_credentials_request(w, r)

\* one worker fetches credentials from the chain and from each provider
\* while time passes and the environment changes
NextAws ==
    \/ AwsStep("w1", {"env", "imds", "http"}, CredResponses)
    \/ \E t \in Times : Tick(t)
    \/ \E vs \in SUBSET {"AWS_ACCESS_KEY_ID", "AWS_SECRET_ACCESS_KEY"} : Setenv(Env(vs))

SpecAws == Init /\ [][NextAws]_vars

\* several workers fetch credentials from the chain and from the IMDS
\* provider concurrently; the credentials handed out are due for a refresh
\* one second after the first instant
NextAwsWorkers ==
    \/ \E w \in Workers :
          AwsStep(w, {"imds"},
                  {r \in CredResponses : r.ok => r.exp = Epoch + 1 + FLB_AWS_REFRESH_WINDOW})
    \/ \E t \in {Epoch + 1, Epoch + 2} : Tick(t)
    \/ Setenv(Env({"AWS_ACCESS_KEY_ID"}))

SpecAwsWorkers == Init /\ [][NextAwsWorkers]_vars

\* the process is started in the environment e, before it builds the chain
Exec(e) ==
    /\ chain = NoChain
    /\ Setenv(e)

\* the process is started in some environment and builds the chain, any
\* creation may fail; then the environment provider is asked
NextChain ==
    \/ \E e \in Environments : Exec(e)
    \/ \E fail \in {f \in SUBSET ChainFailures : Cardinality(f) <= MaxFailures},
          ub \in {"crash", "omitted"} :
          new_standard_chain_provider(fail, ub)
    \/ get_credentials_fn_environment("w1", TRUE)
    \/ refresh_fn_environment("w1")

SpecChain == Init /\ [][NextChain]_vars

\* one worker fetches credentials from the STS provider while time passes
\* and the environment of its base provider changes
NextSts ==
    \/ get_credentials_fn_sts("w1")
    \/ \E r \in CredResponses : sts_assume_role("w1", r)
    \/ \E t \in Times : Tick(t)
    \/ \E vs \in SUBSET {"AWS_ACCESS_KEY_ID", "AWS_SECRET_ACCESS_KEY",
                          "AWS_SESSION_TOKEN"} : Setenv(Env(vs))

SpecSts == Init /\ [][NextSts]_vars

\* the endpoints answer with any response
NextParse ==
    \E r \in HttpResponses, ub \in {"timegm", "zero", "garbage"} :
        process_http_credentials_response(r, ub)

SpecParse == Init /\ [][NextParse]_vars

\* a part of an upload is sent, whatever the answer
NextS3 == \E c \in S3Responses, mem \in S3MemOutcomes : upload_part(c, mem)

InitS3 == \E u \in Uploads : Started(u)

SpecS3 == InitS3 /\ [][NextS3]_vars

\* C1: every PutLogEvents request emitted carries at most 10 000 events, has
\* a payload of at most 1 000 000 bytes, spans at most 86 400 000 ms from its
\* oldest to its newest event, and lists its events in non-decreasing
\* timestamp order.
C1_RequestLimits ==
    \A w \in Workers :
        req[w].kind = "PutLogEvents" =>
            LET evs == req[w].events
            IN  /\ EventCount(evs) <= 10000
                /\ PayloadSize(evs) <= 1000000
                /\ \A i, j \in 1..Len(evs) : evs[j].ts - evs[i].ts <= 86400000
                /\ \A i, j \in 1..Len(evs) : i < j => evs[i].ts <= evs[j].ts

\* a request filled to the last event, with events left for the next one
C1_FullRequest ==
    \E w \in Workers :
        /\ req[w].kind = "PutLogEvents"
        /\ EventCount(req[w].events) = 10000
        /\ rest[w] /= <<>>

\* the worker has a request to its stream on the wire
Sending(w) == pc[w] \in {"create_log_stream", "put_log_events", "recreate_stream"}

\* C2: with several workers flushing concurrently, at most one request is in
\* flight for any log stream at any time, and the worker whose request it is
\* holds the stream's lock until the response has been processed; flushes
\* to different streams may overlap.
C2_OneRequestPerStream ==
    \A w \in Workers :
        Sending(w) =>
            /\ Str(sref[w]).lock = w
            /\ Str(sref[w]).name = req[w].stream
            /\ \A v \in Workers \ {w} : Sending(v) => req[v].stream /= req[w].stream

\* a worker waits for the stream another worker is sending to, while it
\* could not be sending itself
C2_Contended ==
    \E w, v \in Workers :
        /\ w /= v
        /\ pc[w] = "put_log_events"
        /\ pc[v] = "send_in_batches" /\ rest[v] /= <<>>
        /\ sref[v] = sref[w]

\* a PutLogEvents request on the wire carries the token its stream holds
CarriesStreamToken ==
    \A w \in Workers :
        pc[w] = "put_log_events" => req[w].token = Str(sref[w]).sequence_token

\* the token stored by a 200 is the nextSequenceToken of that response
StoredFromSuccess ==
    \A s \in Entries : hist[s.name].src = "200" => s.sequence_token = hist[s.name].ok

StrP(ref) == IF ref = StaticRef THEN stream' ELSE streams'[ref]

\* the step in which w's put_log_events handles the response resp'[w]
RespStep(w) ==
    /\ pc[w] = "put_log_events"
    /\ pc'[w] /= pc[w] \/ retry'[w] /= retry[w]

\* the flush of w ends in this step and hands st to the host
Returns(w, st) == pc'[w] = "idle" /\ status'[w] = st /\ req'[w] = NoReq

\* C4 as stated: on InvalidSequenceTokenException the expectedSequenceToken
\* is adopted and the same sub-batch is resent once with it; a 200 to the
\* resend stores its nextSequenceToken; a second
\* InvalidSequenceTokenException makes the flush fail fatally, with no third
\* attempt.
C4_InvalidSequenceToken ==
    [][\A w \in Workers :
         /\ (RespStep(w) /\ resp'[w].code = "InvalidSequenceTokenException") =>
                IF "token" \notin retry[w]
                THEN /\ pc'[w] = "put_log_events"
                     /\ "token" \in retry'[w]
                     /\ StrP(sref[w]).sequence_token = resp'[w].token
                     /\ req'[w] = [req[w] EXCEPT !.token = resp'[w].token]
                ELSE Returns(w, FLB_ERROR)
         /\ (RespStep(w) /\ "token" \in retry[w] /\ resp'[w].code = "200") =>
                StrP(sref[w]).sequence_token = resp'[w].token
      ]_vars

C6_OtherClientError ==
    \A w \in Workers :
        (pc[w] = "idle" /\ resp[w].code = "InvalidParameterException") =>
            status[w] = FLB_ERROR

\* C7: on ResourceNotFoundException the stream is created, its token is
\* cleared and the same sub-batch is resent once without a sequenceToken; a
\* second ResourceNotFoundException for the sub-batch ends the flush.
C7_ResourceNotFound ==
    [][\A w \in Workers :
         /\ (RespStep(w) /\ resp'[w].code = "ResourceNotFoundException") =>
                IF "create" \notin retry[w]
                THEN /\ pc'[w] = "recreate_stream"
                     /\ "create" \in retry'[w]
                     /\ req'[w] = [req[w] EXCEPT !.kind = "CreateLogStream",
                                                 !.token = NoToken]
                ELSE pc'[w] = "idle" /\ status'[w] /= FLB_OK /\ req'[w] = NoReq
         /\ (pc[w] = "recreate_stream" /\ pc'[w] = "put_log_events") =>
                /\ StrP(sref[w]).sequence_token = NoToken
                /\ StrP(sref[w]).exists_remotely
                /\ req'[w] = [req[w] EXCEPT !.kind = "PutLogEvents"]
                /\ req'[w].token = NoToken
                /\ retry'[w] = retry[w]
      ]_vars

\* the sub-batch is on the wire again, without a token, after the stream
\* that held one was created anew
C7_Resent ==
    \E w \in Workers :
        /\ pc[w] = "put_log_events" /\ "create" \in retry[w]
        /\ req[w].kind = "PutLogEvents" /\ req[w].token = NoToken
        /\ hist[req[w].stream].ok /= NoToken

\* C8: DataAlreadyAcceptedException is taken for success: the sub-batch is
\* not resent, the flush goes on with the sub-batches that follow, and it
\* returns OK when they are through.
C8_DataAlreadyAccepted ==
    [][\A w \in Workers :
         /\ (RespStep(w) /\ resp'[w].code = "DataAlreadyAcceptedException") =>
                /\ pc'[w] = "send_in_batches"
                /\ rest'[w] = rest[w] /\ covered'[w] = covered[w]
                /\ StrP(sref[w]).sequence_token = Str(sref[w]).sequence_token
                /\ StrP(sref[w]).lock = NoWorker
         /\ (/\ pc[w] = "send_in_batches"
             /\ resp[w].code = "DataAlreadyAcceptedException"
             /\ pc'[w] /= pc[w]) =>
                IF rest[w] = <<>>
                THEN Returns(w, FLB_OK)
                ELSE /\ pc'[w] = "put_log_events"
                     /\ req'[w].sb = req[w].sb + 1
                     /\ req'[w].events /= <<>>
      ]_vars

\* a flush has returned OK after its last sub-batch was answered with
\* DataAlreadyAcceptedException
C8_Accepted ==
    \E w \in Workers :
        /\ pc[w] = "idle" /\ status[w] = FLB_OK
        /\ resp[w].code = "DataAlreadyAcceptedException"

\* evs with the parts of a run that was split between two requests joined
RECURSIVE Joined(_)
Joined(evs) ==
    IF Len(evs) < 2 THEN evs
    ELSE IF evs[1].id = evs[2].id
    THEN Joined(<<[evs[1] EXCEPT !.n = @ + evs[2].n]>> \o Tail(Tail(evs)))
    ELSE <<evs[1]>> \o Joined(Tail(evs))

\* evs holds every decoded event of d once, in non-decreasing timestamp order
SortedDecoded(evs, d) ==
    LET dec == msg_pack_to_events(d)
    IN  /\ Len(evs) = Len(dec)
        /\ \A k \in 1..Len(dec) : \E i \in 1..Len(evs) : evs[i] = dec[k]
        /\ \A i, j \in 1..Len(evs) : i < j => evs[i].ts <= evs[j].ts

\* C9: in a flush whose every request succeeded, the event lists of the
\* PutLogEvents requests, put together in the order the requests were sent,
\* are the decoded events in timestamp order: partitioning loses,
\* duplicates and reorders none.
C9_Concatenation ==
    \A w \in Workers :
        (pc[w] = "send_in_batches" /\ rest[w] = <<>> /\ clean[w]) =>
            /\ Joined(covered[w]) = events[w]
            /\ SortedDecoded(Joined(covered[w]), data[w])

\* every request has succeeded of a flush whose events, decoded out of
\* timestamp order, went out in more than one sub-batch
C9_AllSent ==
    \E w \in Workers :
        /\ pc[w] = "send_in_batches" /\ rest[w] = <<>> /\ clean[w]
        /\ req[w].sb >= 2
        /\ Len(events[w]) >= 2
        /\ \E i, j \in 1..Len(data[w]) : data[w][i].ts > data[w][j].ts /\ i < j

\* C10 as stated: the events of a flush are sent in ascending timestamp
\* order, and events that share a timestamp keep the order they had in the
\* input: the sort between decoding and partitioning is stable.
C10_StableSort ==
    \A w \in Workers :
        \A i, j \in 1..Len(events[w]) :
            i < j =>
                \/ events[w][i].ts < events[w][j].ts
                \/ /\ events[w][i].ts = events[w][j].ts
                   /\ events[w][i].id < events[w][j].id

\* C11 as stated: a flush whose batch holds no records issues no request at
\* all, no CreateLogGroup, no CreateLogStream, no PutLogEvents, and returns
\* OK, whatever the configuration and the group and stream flags.
C11_EmptyFlush ==
    [][\A w \in Workers :
         /\ (pc'[w] /= "idle" /\ data'[w] = <<>>) => req'[w] = NoReq
         /\ (pc[w] /= "idle" /\ data[w] = <<>> /\ pc'[w] = "idle") =>
                status'[w] = FLB_OK
      ]_vars

\* C12: on one call the chain returns the credentials of a sub-provider only
\* if every sub-provider before it was asked on that call, in chain order,
\* and returned none; no sub-provider after it is asked; the chain returns
\* none only when every sub-provider did.
C12_ChainOrder ==
    \A w \in Workers :
        LET f == fetch[w]
        IN  f.chain =>
                /\ Len(f.asked) <= Len(Providers)
                /\ \A k \in 1..Len(f.asked) : f.asked[k].p = Providers[k]
                /\ \A k \in 1..(Len(f.asked) - 1) : f.asked[k].ret = NoCreds
                /\ f.pc = "idle" =>
                       /\ f.asked /= <<>>
                       /\ f.ret = f.asked[Len(f.asked)].ret
                       /\ f.ret = NoCreds => Len(f.asked) = Len(Providers)

\* the chain has returned the credentials of its second sub-provider
C12_SecondWins ==
    \E w \in Workers :
        /\ fetch[w].chain /\ fetch[w].pc = "idle"
        /\ fetch[w].ret.from = "imds"
        /\ Len(fetch[w].asked) = 2

\* C13 as stated: a caching provider never returns the cached credential at
\* an instant with now >= refresh_at, now = refresh_at included.
C13_NeverStale ==
    \A w \in Workers : fetch[w].src = "cache" => fetch[w].at < fetch[w].deadline

\* the private state of the caching provider p
Impl(p) == IF p = "imds" THEN imds ELSE http

\* the private state of the caching provider p after the step
ImplP(p) == IF p = "imds" THEN imds' ELSE http'

\* the call f waits for the answer to a request of a refresh
Refreshing(f) ==
    f.pc \in {"get_ec2_token", "get_metadata", "imds_credentials_request",
              "http_credentials_request"}

\* C14 as stated: a refresh that fails at any step leaves the cached
\* credential and its refresh deadline as they were, and fetch still hands
\* the previous credential to its caller.
C14_FailedRefresh ==
    [][\A w \in Workers :
         (Refreshing(fetch[w]) /\ fetch'[w].src = "failed") =>
             /\ ImplP(fetch[w].p).credentials = Impl(fetch[w].p).credentials
             /\ ImplP(fetch[w].p).cred_refresh = Impl(fetch[w].p).cred_refresh
             /\ fetch'[w].asked[Len(fetch'[w].asked)].ret = Impl(fetch[w].p).credentials
      ]_vars

\* C15 as stated: when several workers fetch concurrently while the cached
\* credential needs a refresh, at most one outbound refresh is under way,
\* and every caller gets the credential the cache holds after it.
C15_SingleRefresh ==
    [][\A w \in Workers :
         /\ \A v \in Workers \ {w} :
                ~(/\ Refreshing(fetch'[w]) /\ Refreshing(fetch'[v])
                  /\ fetch'[w].p = fetch'[v].p)
         /\ (/\ fetch[w].pc /= "idle" /\ fetch'[w].pc = "idle"
             /\ fetch'[w].p = "imds" /\ fetch'[w].ret /= NoCreds) =>
                fetch'[w].ret = imds'.credentials
      ]_vars

\* the stream settings among the properties of the instance
StreamSettings == {"log_stream_name", "log_stream_prefix"} \cap ins.props

\* C16: construction succeeds only if exactly one of log_stream_name and
\* log_stream_prefix is configured; with both, or with neither, init fails.
C16_OneStreamSetting ==
    ins.done =>
        /\ ins.ret = 0 => Cardinality(StreamSettings) = 1
        /\ Cardinality(StreamSettings) /= 1 => ins.ret = -1 /\ ~ins.context

\* init has failed on an instance configured with both stream settings and
\* everything else it needs
C16_BothConfigured ==
    /\ ins.done /\ ins.ret = -1
    /\ {"log_group_name", "region", "log_stream_name", "log_stream_prefix"}
          \subseteq ins.props

\* C17: construction fails when log_group_name or region is missing; every
\* failing construction returns failure and exports no context; a flush only
\* runs against a context that init built completely.
C17_NoPartialContext ==
    /\ ins.done /\ {"log_group_name", "region"} \ ins.props /= {} => ins.ret = -1
    /\ ins.done /\ ins.error /= "none" => ins.ret = -1
    /\ ins.ret = -1 => ~ins.context /\ ins.built = {}
    /\ (\E w \in Workers : pc[w] /= "idle") =>
           /\ ins.done /\ ins.ret = 0 /\ ins.context
           /\ ins.built = Attempted(ins.props)
           /\ {"log_group_name", "region"} \subseteq ins.props

\* init has failed at its last creation, on an instance with every key it
\* needs, and no flush has run
C17_UpstreamFailed ==
    /\ ins.done /\ ins.error = "upstream" /\ ins.ret = -1
    /\ \A w \in Workers : pc[w] = "idle" /\ status[w] = "none"

\* the worker w waits for the answer to CreateLogGroup
GroupRequested(w) == pc[w] = "create_log_group"

\* C18 as stated: across the flushes of one process CreateLogGroup is
\* requested at most once when auto_create_group is enabled (no flush
\* requests it when one has been requested before), and never when it is
\* disabled.
C18_AsStated ==
    [][\A w \in Workers :
         (~GroupRequested(w) /\ GroupRequested(w)') =>
             create_group /\ ~group_asked
      ]_vars

\* C18 amended: CreateLogGroup is requested only at the start of a flush,
\* only when auto_create_group is enabled and the group is not yet known to
\* be created; a flush that starts once the group is created requests none.
C18_OncePerSuccess ==
    [][\A w \in Workers :
         /\ (~GroupRequested(w) /\ GroupRequested(w)') =>
                /\ pc[w] = "idle" /\ create_group /\ ~group_created
                /\ req'[w].kind = "CreateLogGroup"
         /\ (pc[w] = "idle" /\ pc'[w] /= "idle" /\ (~create_group \/ group_created)) =>
                /\ ~GroupRequested(w)'
                /\ req'[w] = NoReq
      ]_vars

\* a flush that started after the group was created has passed the point
\* of create_log_group without a request
C18_LaterFlush ==
    /\ create_group /\ group_created
    /\ pc["w1"] = "get_log_stream" /\ req["w1"] = NoReq

\* C19: a CreateLogGroup answered with 200 or ResourceAlreadyExistsException
\* sets the group-created flag; the flag is never cleared and no flush that
\* starts with it set requests CreateLogGroup; any other answer leaves the
\* flag false and the flush returns RETRY without a PutLogEvents.
C19_GroupFlag ==
    [][/\ \A w \in Workers :
            /\ (GroupRequested(w) /\ ~GroupRequested(w)'
                 /\ resp'[w].code \in {"200", "ResourceAlreadyExistsException"}) =>
                    group_created' /\ pc'[w] = "get_log_stream"
            /\ (GroupRequested(w) /\ ~GroupRequested(w)'
                 /\ resp'[w].code \notin {"200", "ResourceAlreadyExistsException"}) =>
                    /\ group_created' = group_created
                    /\ pc'[w] = "idle" /\ status'[w] = FLB_RETRY
                    /\ covered[w] = <<>> /\ req[w].kind = "CreateLogGroup"
            /\ (group_created /\ pc[w] = "idle") => ~GroupRequested(w)'
       /\ group_created => group_created'
      ]_vars

\* the group was already there: CreateLogGroup was answered with
\* ResourceAlreadyExistsException and the flush goes on
C19_AlreadyExists ==
    /\ group_created /\ pc["w1"] = "get_log_stream"
    /\ req["w1"].kind = "CreateLogGroup"
    /\ resp["w1"].code = "ResourceAlreadyExistsException"

\* w sends a new request of the kind k in this step
Requests(w, k) == req'[w].kind = k /\ req'[w] /= req[w]

\* w gets the answer to a CreateLogStream in this step
StreamAnswered(w) ==
    /\ pc[w] \in {"create_log_stream", "recreate_stream"}
    /\ pc'[w] /= pc[w]

\* C20: CreateLogStream is lazy and idempotent. Nothing is sent to a stream
\* whose exists_remotely is false before CreateLogStream was requested for
\* it; 200 and ResourceAlreadyExistsException both leave the stream with
\* exists_remotely true and no sequence token; CreateLogStream is requested
\* for a stream whose exists_remotely is true only after a send reported
\* the stream missing.
C20_LazyCreate ==
    [][\A w \in Workers :
         /\ (pc[w] = "get_log_stream" /\ pc'[w] /= pc[w]) =>
                IF StrP(sref'[w]).exists_remotely
                THEN pc'[w] = "decode" /\ req'[w] = req[w]
                ELSE /\ pc'[w] = "create_log_stream"
                     /\ Requests(w, "CreateLogStream")
                     /\ req'[w].stream = StrP(sref'[w]).name
         /\ Requests(w, "PutLogEvents") => StrP(sref'[w]).exists_remotely
         /\ (StreamAnswered(w)
              /\ resp'[w].code \in {"200", "ResourceAlreadyExistsException"}) =>
                /\ StrP(sref[w]).exists_remotely
                /\ StrP(sref[w]).sequence_token = NoToken
                /\ pc'[w] \in {"decode", "put_log_events"}
         /\ (Requests(w, "CreateLogStream") /\ StrP(sref'[w]).exists_remotely) =>
                /\ pc[w] = "put_log_events"
                /\ resp'[w].code = "ResourceNotFoundException"
      ]_vars

\* a stream that was already there: CreateLogStream was answered with
\* ResourceAlreadyExistsException, the stream has no token and the flush
\* goes on to send to it
C20_StreamAlreadyThere ==
    /\ pc["w1"] = "decode" /\ sref["w1"] /= NullRef
    /\ req["w1"].kind = "CreateLogStream"
    /\ resp["w1"].code = "ResourceAlreadyExistsException"
    /\ Str(sref["w1"]).exists_remotely
    /\ Str(sref["w1"]).sequence_token = NoToken

\* w is in a request that names a stream
StreamRequested(w) ==
    pc[w] \in {"create_log_stream", "recreate_stream", "put_log_events"}

\* C21: with auto_create_group enabled a flush asks for the group, then for
\* the stream, then sends: while CreateLogGroup is under way the flush has
\* no stream and has sent nothing, no request that names a stream is under
\* way before the group is known to be created, and no PutLogEvents is
\* under way to a stream not known to exist.
C21_ColdOrder ==
    \A w \in Workers :
        /\ GroupRequested(w) =>
              /\ req[w].kind = "CreateLogGroup"
              /\ sref[w] = NullRef /\ covered[w] = <<>>
        /\ (StreamRequested(w) /\ create_group) => group_created
        /\ pc[w] = "create_log_stream" =>
              req[w].kind = "CreateLogStream" /\ covered[w] = <<>>
        /\ pc[w] = "put_log_events" =>
              req[w].kind = "PutLogEvents" /\ Str(sref[w]).exists_remotely

\* the first PutLogEvents to a stream, after the group and the stream were
\* created: it carries no sequence token
C21_FirstPut ==
    /\ create_group /\ group_asked /\ group_created
    /\ pc["w1"] = "put_log_events" /\ req["w1"].sb = 1 /\ req["w1"].token = NoToken
    /\ Str(sref["w1"]).exists_remotely
    /\ \A n \in StreamNames : ~hist[n].sent /\ hist[n].src = "none"
    /\ clean["w1"]

\* the entries of the registry named name
EntriesNamed(name) == {i \in 1..Len(streams) : streams[i].name = name}

Constructed ==
    {p \in {SubProviders[k] : k \in 1..Len(SubProviders)} :
        SubCreated(p, environ, chain.fail)}

\* C23: the chain lists its sub-providers in the order environment,
\* profile, web identity, IMDS, ECS; a sub-provider that fails or declines
\* to construct is omitted, and the chain is still built with the others in
\* the same relative order.
C23_ChainBuilt ==
    (chain /= NoChain /\ {"provider", "implementation"} \cap chain.fail = {}) =>
        /\ chain.state = "built"
        /\ chain.providers = SelectIn(SubProviders, Constructed)

\* the variable var is set and not empty
SetAndNotEmpty(var) == environ[var] >= 1

\* C24: fetch of the environment provider returns credentials if and only
\* if AWS_ACCESS_KEY_ID and AWS_SECRET_ACCESS_KEY are both set and not
\* empty; the credential has a session token if and only if
\* AWS_SESSION_TOKEN is set and not empty; refresh succeeds in exactly the
\* cases in which fetch returns credentials.
C24_EnvironmentProvider ==
    [][\A w \in Workers :
         (fetch'[w] /= fetch[w] /\ fetch'[w].p = "env" /\ fetch'[w].pc = "idle") =>
            LET keys == /\ SetAndNotEmpty("AWS_ACCESS_KEY_ID")
                        /\ SetAndNotEmpty("AWS_SECRET_ACCESS_KEY")
                f == fetch'[w]
            IN  /\ f.asked /= <<>> =>
                      /\ f.ret /= NoCreds <=> keys
                      /\ f.ret /= NoCreds =>
                            /\ f.ret.from = "env"
                            /\ f.ret.session_token <=> SetAndNotEmpty("AWS_SESSION_TOKEN")
                /\ f.asked = <<>> =>
                      /\ f.src \in {"refreshed", "not_refreshed"}
                      /\ f.src = "refreshed" <=> keys
      ]_vars

\* fetch has returned a credential without a session token: the keys are
\* set and AWS_SESSION_TOKEN is set to the empty string
C24_EmptyToken ==
    /\ fetch["w1"].p = "env" /\ fetch["w1"].pc = "idle"
    /\ fetch["w1"].ret.from = "env" /\ ~fetch["w1"].ret.session_token
    /\ environ["AWS_SESSION_TOKEN"] = 0

\* w calls get_credentials of the IMDS provider in this step
ImdsCalled(w) ==
    /\ fetch[w].pc \in {"idle", "chain"}
    /\ fetch'[w] /= fetch[w]
    /\ fetch'[w].p = "imds"

\* C25: a successful IMDS fetch caches the credential with the refresh
\* deadline expiration - 300 s, and every later fetch made while
\* now < deadline returns the cached credential without a request: no
\* token PUT, no role GET, no credential GET.
C25_CachedFetch ==
    [][\A w \in Workers :
         /\ (fetch[w].pc = "imds_credentials_request" /\ fetch'[w].src = "refresh") =>
                /\ imds'.credentials /= NoCreds
                /\ imds'.credentials /= imds.credentials
                /\ fetch'[w].ret = imds'.credentials
                /\ \E r \in CredResponses :
                      r.ok /\ imds'.cred_refresh = r.exp - 300
         /\ (ImdsCalled(w) /\ imds.credentials /= NoCreds /\ now < imds.cred_refresh) =>
                /\ ~Refreshing(fetch'[w])
                /\ fetch'[w].ret = imds.credentials
                /\ fetch'[w].src = "cache"
                /\ imds' = imds
      ]_vars

\* a fetch, one second after the credential was fetched from IMDS and
\* before its refresh deadline, has returned the cached credential
C25_FromCache ==
    /\ fetch["w1"].p = "imds" /\ fetch["w1"].pc = "idle"
    /\ fetch["w1"].src = "cache" /\ fetch["w1"].ret = imds.credentials
    /\ imds.credentials.from = "imds"
    /\ now = Epoch + 1 /\ now < imds.cred_refresh

\* C26: the parser returns a credential, with the expiry as epoch seconds,
\* only when AccessKeyId, SecretAccessKey and Token are all present and
\* not empty, the JSON is well formed and Expiration parses; it returns no
\* credential when one of the three is missing or empty, when the JSON is
\* malformed, or when the expiration does not parse.
C26_ParserContract ==
    parsed.done =>
        LET r == parsed.response
            good == /\ r.well_formed
                    /\ r.AccessKeyId = "value" /\ r.SecretAccessKey = "value"
                    /\ r.Token = "value"
                    /\ r.Expiration = "valid"
        IN  /\ parsed.result.creds => good /\ parsed.result.expiration = "epoch"
            /\ (\/ ~r.well_formed
                \/ "missing" \in {r.AccessKeyId, r.SecretAccessKey, r.Token}
                \/ "empty" \in {r.AccessKeyId, r.SecretAccessKey, r.Token}
                \/ r.Expiration = "unparsable") => ~parsed.result.creds

\* w calls get_credentials of the STS provider in this step
StsCalled(w) ==
    /\ fetch[w].pc = "idle"
    /\ fetch'[w] /= fetch[w]
    /\ fetch'[w].p = "sts"

\* C27: the STS provider depends on its base provider at refresh time.
\* Whenever it needs a refresh and the base provider has no credentials,
\* its fetch fails and no AssumeRole request is sent; an AssumeRole request
\* is signed with the credentials the base provider gives at that refresh.
C27_BaseAtRefresh ==
    [][\A w \in Workers :
         /\ (StsCalled(w) /\ NeedsRefresh(sts) /\ EnvCreds(environ) = NoCreds) =>
                /\ fetch'[w].pc = "idle"
                /\ fetch'[w].ret = NoCreds /\ fetch'[w].src = "failed"
                /\ sts' = sts
         /\ (StsCalled(w) /\ fetch'[w].pc = "sts_assume_role") =>
                /\ fetch'[w].signed /= NoCreds
                /\ fetch'[w].signed = EnvCreds(environ)
         /\ (fetch'[w].pc = "sts_assume_role") => fetch'[w].signed.from = "env"
      ]_vars

\* the STS provider holds credentials that are due for a refresh, the base
\* provider has none any more: the fetch has failed
C27_BaseGone ==
    /\ sts.credentials.from = "sts" /\ now > sts.cred_refresh
    /\ EnvCreds(environ) = NoCreds
    /\ fetch["w1"].p = "sts" /\ fetch["w1"].pc = "idle"
    /\ fetch["w1"].src = "failed" /\ fetch["w1"].ret = NoCreds
    /\ fetch["w1"].signed = NoCreds

\* the events evs are within the limits of one request
Legal(evs) ==
    /\ EventCount(evs) <= 10000
    /\ PayloadSize(evs) <= 1000000
    /\ \A i, j \in 1..Len(evs) : evs[j].ts - evs[i].ts <= 86400000

\* the events evs and one more event of the run e
WithOneOf(evs, e) == Append(evs, [e EXCEPT !.n = 1])

\* C28: the planner is greedy and maximal. A sub-batch is closed only when
\* the next event would take it over a limit: sorted events that fit in one
\* request go out in one request (10 000 events, two events 24 h apart),
\* and whenever events are left behind, the first of them would have
\* broken a limit (10 001 events, two events 24 h + 1 ms apart).
C28_GreedyMaximal ==
    \A w \in Workers :
        (pc[w] = "put_log_events" /\ req[w].kind = "PutLogEvents") =>
            /\ (req[w].sb = 1 /\ Legal(events[w])) =>
                   req[w].events = events[w] /\ rest[w] = <<>>
            /\ rest[w] /= <<>> => ~Legal(WithOneOf(req[w].events, Head(rest[w])))
            /\ req[w].events /= <<>>

\* 10 001 events: the second request of the flush carries the one event
\* that did not fit in the first, which carried 10 000
C28_TenThousandAndOne ==
    /\ pc["w1"] = "put_log_events" /\ req["w1"].sb = 2
    /\ EventCount(events["w1"]) = 10001
    /\ EventCount(covered["w1"]) = 10001
    /\ covered["w1"][1].n = 10000 /\ EventCount(req["w1"].events) = 1
    /\ rest["w1"] = <<>>

\* C29: the planner accounts an event as its message length + 26 bytes and
\* a request body as the sum of its events + the 4-byte footer. No request
\* is accounted above 1 000 000 bytes; events that sum to exactly 1 000 000
\* leave in one request; when the next event is kept back for the payload
\* alone, it would have taken the request above 1 000 000.
C29_PayloadBoundary ==
    \A w \in Workers :
        (pc[w] = "put_log_events" /\ req[w].kind = "PutLogEvents") =>
            /\ PayloadSize(req[w].events) <= 1000000
            /\ (req[w].sb = 1 /\ Len(events[w]) = 2
                    /\ events[w][1].ts = events[w][2].ts
                    /\ events[w][1].n = 1 /\ events[w][2].n = 1
                    /\ events[w][1].len + 26 + events[w][2].len + 26 + 4 = 1000000) =>
                   req[w].events = events[w] /\ rest[w] = <<>>
            /\ (rest[w] /= <<>>
                    /\ EventCount(req[w].events) < 10000
                    /\ Head(rest[w]).ts - req[w].events[1].ts <= 86400000) =>
                   PayloadSize(WithOneOf(req[w].events, Head(rest[w]))) > 1000000

\* two events accounted at 1 000 001 bytes together: the first request of
\* the flush carries one of them and the other waits for the second request
C29_OneByteOver ==
    /\ pc["w1"] = "put_log_events" /\ req["w1"].sb = 1
    /\ Len(events["w1"]) = 2 /\ PayloadSize(events["w1"]) = 1000001
    /\ Len(req["w1"].events) = 1 /\ Len(rest["w1"]) = 1
    /\ PayloadSize(req["w1"].events) + Head(rest["w1"]).len + 26 = 1000001

\* the places in batch d of the records that fit in a request of their own
Fitting(d) == {i \in 1..Len(d) : d[i].len + 26 + 4 <= 1000000}

\* the records of batch d that fit in a request of their own
FittingRecords(d) == SelectSeq(d, LAMBDA r : r.len + 26 + 4 <= 1000000)

\* C30: a record too large for any request is dropped on its own. Decoding
\* a batch goes on to the planner whatever the sizes of its records; the
\* events planned are those of all the other records and of no oversize
\* one; when the planner has nothing left, the requests of the flush have
\* carried every event of the other records.
C30_OversizeDroppedAlone ==
    \A w \in Workers :
        /\ pc[w] = "decode" =>
               ENABLED (Decode(w, "ok") /\ pc'[w] = "send_in_batches")
        /\ pc[w] \in {"send_in_batches", "put_log_events"} =>
               /\ {events[w][k].id : k \in 1..Len(events[w])} = Fitting(data[w])
               /\ Len(events[w]) = Cardinality(Fitting(data[w]))
               /\ EventCount(events[w]) = EventCount(FittingRecords(data[w]))
        /\ (pc[w] = "send_in_batches" /\ rest[w] = <<>>) =>
               EventCount(covered[w]) = EventCount(FittingRecords(data[w]))

\* a batch of a 1 050 000-byte record and a small one: the small one has
\* been sent and accepted, nothing is left, and the flush is about to
\* return FLB_OK
C30_RestOfBatchSent ==
    /\ pc["w1"] = "send_in_batches" /\ rest["w1"] = <<>> /\ clean["w1"]
    /\ Len(data["w1"]) = 2
    /\ data["w1"][1].len = 1050000 /\ data["w1"][2].len = 10
    /\ Len(covered["w1"]) = 1 /\ covered["w1"][1].id = 2
    /\ status["w1"] = "none"

\* one worker refreshes the chain again and again while time passes and
\* the environment changes
NextRefresh ==
    \/ refresh_fn_standard_chain("w1")
    \/ refresh_fn_environment("w1")
    \/ refresh_fn_imds("w1")
    \/ \E ok \in BOOLEAN : get_ec2_token("w1", ok)
    \/ \E ok \in BOOLEAN : get_metadata("w1", ok)
    \/ \E r \in CredResponses : imds_credentials_request("w1", r)
    \/ refresh_fn_http("w1")
    \/ \E r \in CredResponses : http_credentials_request("w1", r)
    \/ \E t \in Times : Tick(t)
    \/ \E vs \in SUBSET {"AWS_ACCESS_KEY_ID", "AWS_SECRET_ACCESS_KEY"} : Setenv(Env(vs))

SpecRefresh == Init /\ [][NextRefresh]_vars

\* C31: refresh_fn_standard_chain refreshes the sub-providers in chain
\* order and one at a time; it goes on to the next one only after a
\* refresh that failed, so that none is refreshed after one that succeeded;
\* it returns 0 when the last refresh it made succeeded and -1 only when
\* the refresh of every sub-provider failed.
C31_RefreshWalk ==
    \A w \in Workers :
        LET f == fetch[w]
            n == Len(f.asked)
        IN  (f.chain /\ f.refresh) =>
                /\ n <= Len(Providers)
                /\ \A k \in 1..n : f.asked[k].p = Providers[k]
                /\ \A k \in 1..(n - 1) : f.asked[k].ret = -1
                /\ f.pc /= "idle" => f.i = n + 1 /\ (n > 0 => f.asked[n].ret = -1)
                /\ f.pc \notin {"idle", "chain_refresh"} => f.p = Providers[f.i]
                /\ f.pc = "idle" =>
                       /\ n > 0
                       /\ f.src = "refreshed" <=> f.asked[n].ret = 0
                       /\ f.src = "not_refreshed" <=>
                              (n = Len(Providers) /\ \A k \in 1..n : f.asked[k].ret = -1)
                       /\ f.src \in {"refreshed", "not_refreshed"}

\* the environment has no keys and IMDS answers: the walk ended with the
\* refresh of the IMDS provider, and the HTTP provider was not refreshed
C31_StopsAtImds ==
    LET f == fetch["w1"]
    IN  /\ f.chain /\ f.refresh /\ f.pc = "idle" /\ f.src = "refreshed"
        /\ Len(f.asked) = 2
        /\ f.asked[1] = [p |-> "env", ret |-> -1]
        /\ f.asked[2] = [p |-> "imds", ret |-> 0]
        /\ imds.credentials /= NoCreds /\ http = NewHttp

\* C32: the IMDS provider asks for a token only when it holds none or
\* now >= token_refresh; when the token request succeeds, token_refresh is
\* the time of the acquisition + 21600 - 300 seconds; when it fails,
\* token_refresh and the token held stay as they were; a refresh that does
\* not ask for a token goes to its metadata GET with the token it holds,
\* and no metadata GET changes the token.
C32_TokenCache ==
    [][\A w \in Workers :
          /\ (fetch[w].pc /= "get_ec2_token" /\ fetch'[w].pc = "get_ec2_token") =>
                 ~imds.imds_v2_token \/ now >= imds.token_refresh
          /\ (fetch[w].pc = "get_ec2_token" /\ fetch'[w].pc = "get_metadata") =>
                 imds'.imds_v2_token /\ imds'.token_refresh = now + 21600 - 300
          /\ (fetch[w].pc = "get_ec2_token"
                 /\ fetch'[w].pc \notin {"get_ec2_token", "get_metadata"}) =>
                 /\ imds'.token_refresh = imds.token_refresh
                 /\ imds'.imds_v2_token = imds.imds_v2_token
          /\ (fetch[w].pc \notin {"get_ec2_token", "get_metadata"}
                 /\ fetch'[w].pc = "get_metadata") =>
                 imds.imds_v2_token /\ now <= imds.token_refresh
          /\ fetch[w].pc \in {"get_metadata", "imds_credentials_request"} =>
                 /\ imds.imds_v2_token
                 /\ imds'.imds_v2_token = imds.imds_v2_token
                 /\ imds'.token_refresh = imds.token_refresh
      ]_vars

\* the token acquired at the first instant was due and has been acquired
\* again, one second after its token_refresh
C32_SecondToken ==
    /\ fetch["w1"].p = "imds" /\ fetch["w1"].pc = "get_metadata"
    /\ imds.credentials /= NoCreds
    /\ now = Epoch + 21600 - 300 + 1
    /\ imds.imds_v2_token /\ imds.token_refresh = now + 21600 - 300

\* the requests of get_creds_imds, in its order
ImdsSteps == <<"get_ec2_token", "get_metadata", "imds_credentials_request">>

\* the place of pc in ImdsSteps, 0 when it is none of them
ImdsStep(p) ==
    IF \E k \in 1..Len(ImdsSteps) : ImdsSteps[k] = p
    THEN CHOOSE k \in 1..Len(ImdsSteps) : ImdsSteps[k] = p
    ELSE 0

\* C33: an IMDS refresh asks for the token, then for the role, then for
\* the credentials of the role. The token request is the first request and
\* needs no token; a metadata GET is sent only with a token held; the
\* credentials GET is sent only after a role lookup that succeeded; the
\* requests are made in this order, none twice; and a refresh that leaves
\* the protocol before the credentials GET returns no credentials.
C33_ImdsProtocol ==
    /\ [](\A w \in Workers :
             /\ fetch[w].pc = "get_ec2_token" =>
                    fetch[w].last = "none" /\ ENABLED get_ec2_token(w, TRUE)
             /\ fetch[w].pc = "get_metadata" =>
                    imds.imds_v2_token /\ fetch[w].last /= "failed"
             /\ fetch[w].pc = "imds_credentials_request" =>
                    imds.imds_v2_token /\ fetch[w].last = "ok")
    /\ [][\A w \in Workers :
             LET from == ImdsStep(fetch[w].pc)
                 to == ImdsStep(fetch'[w].pc)
                 n == Len(fetch'[w].asked)
             IN  /\ (from /= to /\ from > 0 /\ to > 0) => to = from + 1
                 /\ (from = 0 /\ to > 0) => to \in {1, 2}
                 /\ (from \in {1, 2} /\ to = 0) =>
                        /\ n = Len(fetch[w].asked) + 1
                        /\ fetch'[w].asked[n].p = "imds"
                        /\ fetch'[w].asked[n].ret \in {NoCreds, -1}
                        /\ imds'.credentials = imds.credentials
         ]_vars

\* a token was acquired and a metadata GET failed after it: the fetch
\* has returned NULL and the provider has no credentials
C33_FailedAfterToken ==
    /\ fetch["w1"].p = "imds" /\ ~fetch["w1"].chain /\ fetch["w1"].pc = "idle"
    /\ fetch["w1"].src = "failed" /\ fetch["w1"].ret = NoCreds
    /\ imds.imds_v2_token /\ imds.credentials = NoCreds

\* C34: process_http_credentials_response does not write to the response
\* it is given: after the call, whether it returned credentials or NULL,
\* the text of the response is what it was before.
C34_InputIntact ==
    parsed.done => parsed.text = Document(parsed.response)

\* the layers of the plugin, the topmost first: the streams, the
\* CloudWatch client, the STS provider, the base chain, the TLS contexts
Layer(x) ==
    CASE x \in {"streams", "stream.name"} -> 1
      [] x = "cw_client" -> 2
      [] x = "sts_provider" -> 3
      [] x = "aws_provider" -> 4
      [] x \in {"cred_tls", "sts_tls", "client_tls"} -> 5
      [] OTHER -> 0

\* C35: when the context is destroyed, at shutdown or after a failed
\* construction, the streams go first, then the CloudWatch client, then the
\* STS provider, then the base chain, then the TLS contexts: nothing is
\* destroyed before something of a layer above it, and nothing twice.
C35_DisposalOrder ==
    LET d == ins.destroyed
    IN  \A i, j \in 1..Len(d) :
            i < j =>
                /\ d[i] /= d[j]
                /\ (Layer(d[i]) > 0 /\ Layer(d[j]) > 0) => Layer(d[i]) <= Layer(d[j])

\* a flush of w is waiting for the response to a request
Waiting(w) ==
    pc[w] \in {"create_log_group", "create_log_stream", "put_log_events", "recreate_stream"}

\* C36: once cb_cloudwatch_init has returned 0, the upstream of the
\* CloudWatch client never has FLB_IO_ASYNC among its flags. A flush makes
\* its requests one at a time on the worker that runs it: it has a request
\* in flight whenever it waits, a step of one worker leaves the flushes of
\* the others where they are, a flush leaves a wait only with the response
\* to its request, and it reports its status only from there or with no
\* request left unanswered.
C36_SyncTransport ==
    /\ [](ins.ret = 0 /\ ins.done => "FLB_IO_ASYNC" \notin ins.flags)
    /\ [](\A w \in Workers : Waiting(w) => req[w] /= NoReq)
    /\ [][\A w \in Workers :
             /\ (Waiting(w) /\ pc'[w] /= pc[w]) => resp'[w] /= NoResp
             /\ (pc[w] /= "idle" /\ pc'[w] = "idle") =>
                    /\ req'[w] = NoReq
                    /\ Waiting(w) \/ resp[w] /= NoResp \/ req[w] = NoReq
             /\ pc'[w] /= pc[w] => \A v \in Workers \ {w} : pc'[v] = pc[v]
         ]_vars

\* the context was built over an upstream and a flush has reported FLB_OK
\* from the 200 to its PutLogEvents
C36_FlushedSync ==
    /\ ins.done /\ ins.ret = 0 /\ ins.flags = {"FLB_IO_TLS"}
    /\ pc["w1"] = "idle" /\ status["w1"] = FLB_OK
    /\ resp["w1"].code = "200" /\ req["w1"] = NoReq

\* one step of worker w, which fetches from the IMDS and the HTTP provider
\* and destroys what it was handed; the endpoints answer from R
OwnStep(w, R) ==
    \/ get_credentials_fn_imds(w, TRUE)
    \/ \E ok \in BOOLEAN : get_ec2_token(w, ok)
    \/ \E ok \in BOOLEAN : get_metadata(w, ok)
    \/ \E r \in R : imds_credentials_request(w, r)
    \/ get_credentials_fn_http(w, TRUE)
    \/ \E r \in R : http_credentials_request(w, r)
    \/ aws_credentials_destroy(w)

\* two callers fetch and destroy credentials while time passes; the
\* credentials handed out are due for a refresh one second after the first
\* instant
NextOwn ==
    \/ \E w \in Workers :
          OwnStep(w, {r \in CredResponses : r.ok => r.exp = Epoch + 1 + FLB_AWS_REFRESH_WINDOW})
    \/ \E t \in {Epoch + 1, Epoch + 2} : Tick(t)

SpecOwn == Init /\ [][NextOwn]_vars

\* C37: the credentials a caching provider hands out are the caller's own
\* copy. Destroying them changes nothing in the provider, whose cache never
\* points to freed memory, so that a later fetch served from the cache
\* returns the cached credentials; and a refresh that replaces the cached
\* credentials leaves the credentials other callers hold as they were.
C37_CallerOwnsCopy ==
    /\ [](~imds.dangling /\ ~http.dangling)
    /\ [][\A w \in Workers :
             /\ (fetch'[w] /= fetch[w] /\ fetch'[w].pc = "idle"
                    /\ fetch'[w].held /= "none" /\ fetch'[w].src = "cache") =>
                    /\ fetch'[w].ret = Impl(fetch'[w].p).credentials
                    /\ fetch'[w].ret /= NoCreds
             /\ (fetch[w].held /= "none" /\ fetch'[w].held = "none"
                    /\ fetch'[w].pc = "idle") =>
                    imds' = imds /\ http' = http /\ fetch'[w].ret = fetch[w].ret
             /\ (fetch[w].pc = "idle" /\ fetch[w].held /= "none"
                    /\ (imds'.credentials /= imds.credentials
                           \/ http'.credentials /= http.credentials)) =>
                    fetch'[w] = fetch[w]
         ]_vars

\* w1 has destroyed the credentials it was handed, the provider has
\* refreshed since, and w2 holds credentials from before that refresh
C37_HeldAcrossRefresh ==
    /\ fetch["w1"].pc = "idle" /\ fetch["w1"].p = "imds"
    /\ fetch["w1"].ret /= NoCreds /\ fetch["w1"].held = "none"
    /\ fetch["w2"].pc = "idle" /\ fetch["w2"].p = "imds" /\ fetch["w2"].held = "copy"
    /\ fetch["w2"].ret.id < imds.credentials.id
    /\ fetch["w1"].ret = imds.credentials

\* C38: a flush reports one status, when it ends; when it had its buffer,
\* the buffer was released once before that, whatever the way out (a
\* buffer of the struct that cannot be allocated, a batch that cannot be
\* decoded, a request that fails, success), and never twice; nothing of
\* the flush is left when it has ended, and the next one starts from
\* nothing.
C38_OneStatusOneRelease ==
    /\ [](\A w \in Workers :
             /\ pc[w] /= "idle" => status[w] = "none"
             /\ buf[w].allocated => buf[w].frees = 0
             /\ pc[w] \in {"send_in_batches", "put_log_events", "recreate_stream"} =>
                    buf[w].allocated
             /\ pc[w] = "idle" =>
                    /\ ~buf[w].allocated /\ buf[w].frees <= 1
                    /\ tag[w] = "" /\ data[w] = <<>> /\ events[w] = <<>>
                    /\ rest[w] = <<>> /\ sref[w] = NullRef /\ retry[w] = {}
                    /\ req[w] = NoReq
                    /\ \A e \in Entries : e.lock /= w)
    /\ [][\A w \in Workers :
             /\ (pc[w] /= "idle" /\ pc'[w] = "idle") =>
                    /\ status'[w] \in {FLB_OK, FLB_RETRY, FLB_ERROR}
                    /\ buf[w].allocated => buf'[w].frees = 1
                    /\ (~buf[w].allocated /\ pc[w] /= "decode") => buf'[w].frees = 0
             /\ (pc[w] = "idle" /\ pc'[w] = "idle") =>
                    status'[w] = status[w] /\ buf'[w] = buf[w]
             /\ (pc[w] = "idle" /\ pc'[w] /= "idle") =>
                    status'[w] = "none" /\ buf'[w] = NoBuf
         ]_vars

\* a flush whose PutLogEvents failed has reported FLB_RETRY, its buffer
\* released once
C38_ReleasedOnFailure ==
    /\ pc["w1"] = "idle" /\ status["w1"] = FLB_RETRY
    /\ buf["w1"] = [allocated |-> FALSE, frees |-> 1]
    /\ resp["w1"].code = "500"


\* the response carries an ETag header
HasETag(d) == \E k \in 1..Len(d) : d[k] = ETagKey

\* the value of the first ETag header of a response: what stands between the
\* quotes and blanks after the key and the next quote or blank
ETagOf(d) ==
    LET Edge(c) == c = "\"" \/ c = " "
        key == CHOOSE k \in 1..Len(d) :
                   d[k] = ETagKey /\ \A j \in 1..(k - 1) : d[j] /= ETagKey
        first == CHOOSE i \in (key + 1)..(Len(d) + 1) :
                     /\ i <= Len(d) => ~Edge(d[i])
                     /\ \A j \in (key + 1)..(i - 1) : Edge(d[j])
        last == CHOOSE i \in (first - 1)..Len(d) :
                     /\ i < Len(d) => Edge(d[i + 1])
                     /\ \A j \in first..i : ~Edge(d[j])
    IN  [k \in 1..(last - first + 1) |-> d[first + k - 1]]

\* C39: upload_part records the ETag of a part only on success. It returns 0
\* exactly when the request was answered with status 200 and the response
\* carries an ETag header (and the allocations of the call succeed), and then
\* etags[part_number - 1] holds the value of that header; in every other case
\* it returns -1. A call never changes upload_id, part_number or the ETag of
\* another part, and a call that returns -1 changes nothing of the upload.
C39_ETagOnlyOnSuccess ==
    /\ [](s3.called =>
            /\ s3.ret \in {0, -1}
            /\ s3.ret = 0 <=> /\ ~s3.c.null
                              /\ s3.c.status = 200
                              /\ HasETag(s3.c.data)
                              /\ s3.mem = "ok"
            /\ s3.ret = 0 =>
                   s3.m_upload.etags[s3.m_upload.part_number] = Sds(ETagOf(s3.c.data)))
    /\ [][LET u == s3.m_upload
              v == s3'.m_upload
          IN  /\ v.upload_id = u.upload_id
              /\ v.part_number = u.part_number
              /\ \A k \in Parts \ {u.part_number} : v.etags[k] = u.etags[k]
              /\ (s3'.called /\ s3'.ret = -1) => v = u]_vars

\* the second part of an upload got the ETag of a 200 response, quoted
C39_ETagStored ==
    /\ s3.called
    /\ s3.ret = 0
    /\ s3.c.data = <<ETagKey, "\"", "a", "\"">>
    /\ s3.m_upload.part_number = 2
    /\ s3.m_upload.etags = [k \in Parts |-> Sds(<<"a">>)]


\* C40: each caching provider (IMDS, HTTP) has at most one cached credential
\* object alive at any time, over any sequence of successful and failed
\* refreshes: a successful refresh releases the object it replaces.
C40_OneLiveCredential == imds.live <= 1 /\ http.live <= 1

====
